---- MODULE Spec2Model ----
(***************************************************************************)
(* Model of the composio-google-workspace repository:                      *)
(*   - the Composio client helpers (executeTool) and GoogleWorkspaceAgent  *)
(*     with its workflows (src/unnamed/part_001),                          *)
(*   - GoogleWorkspaceMCP: tool registration and the LLM-driven            *)
(*     convenience methods (src/src/index.ts),                             *)
(*   - GoogleWorkspaceService / startService / main (startup, readiness,   *)
(*     HTTP handlers),                                                     *)
(*   - the custom tool executors.                                          *)
(* Calls into the Composio and Anthropic SDKs are the environment: each    *)
(* call completes with any outcome the SDK can produce.                    *)
(***************************************************************************)
EXTENDS Integers, Sequences, FiniteSets, TLC

VARIABLES
    \* ---- GoogleWorkspaceAgent (part_001:448-720)
    connectedServices,  \* private connectedServices: Set<string>
    agentCall,          \* one call of a single-tool agent method
    initCall,           \* one call of agent.initialize
    summaryCall,        \* one call of agent.generateDailySummary
    \* ---- scheduleMeetingWithInvites (part_001:624-662)
    wfPc,               \* position of the workflow
    wfMeeting,          \* its argument
    wfEvent,            \* const event
    emailPromises,      \* const emailPromises, one promise per attendee
    completionOrder,    \* indices of emailPromises in the order they settled
    wfOutcome,          \* how the workflow's promise settled
    \* ---- initializeCustomTools of the custom-tools module (part_001:270-291)
    ctPc,               \* position of the call
    ctPromises,         \* the four promises handed to Promise.all
    ctOrder,            \* their indices in the order they settled
    ctOutcome,          \* how the call settled
    \* ---- GoogleWorkspaceMCP (index.ts:349-2826)
    mcpCall,            \* one call of sendEmail / searchGmailMessages /
                        \* createCalendarEvent
    auxCall,            \* one call of getGoogleWorkspaceTools /
                        \* initializeAuthentication / setupGmailTrigger
    subscriptions,      \* trigger ids handed to composio.triggers.subscribe
    registry,           \* the custom tools createCustomTool has registered
    reg,                \* the initializeCustomTools run in progress
    \* ---- the process: startService (part_001:816-831) or main (index.ts:2832)
    env,                \* which API keys the environment sets
    proc,               \* the entry point that runs
    pc,                 \* its position
    exitCode,           \* the code the process exited with, -1 while it runs
    toolsListed,        \* main has called getGoogleWorkspaceTools
    \* ---- GoogleWorkspaceService (part_001:736-813)
    isReady,            \* private isReady: boolean
    listening,          \* app.listen has been called
    lastResponse,       \* the last HTTP response sent
    shutdownTimers,     \* pending setTimeout(() => process.exit(0), 1000)
    \* ---- the executors of the custom tools (index.ts:394-2596, part_001:12-265)
    tool,               \* the tool whose executor is run
    clock,              \* what Date.now() answers
    executions,         \* the executions so far: input, context, result
    dispatches,         \* the dispatches of raw inputs so far
    \* ---- the process manager that runs the service (part_000:37-76)
    pmStatus,           \* what it holds the app to be
    unstableRestarts,   \* its count of consecutive unstable restarts
    stableUptime        \* the process has been up for min_uptime

agentVars == <<connectedServices, agentCall, initCall, summaryCall>>
wfVars == <<wfPc, wfMeeting, wfEvent, emailPromises, completionOrder, wfOutcome>>
ctVars == <<ctPc, ctPromises, ctOrder, ctOutcome>>
mcpVars == <<mcpCall>>
\* Everything of the MCP server and its process except registry.
svcRest == <<auxCall, subscriptions, reg, env, proc, pc, exitCode,
             toolsListed, isReady, listening, lastResponse, shutdownTimers>>
svcVars == <<registry, svcRest>>
execVars == <<tool, clock, executions, dispatches>>
pmVars == <<pmStatus, unstableRestarts, stableUptime>>
vars == <<connectedServices, agentCall, initCall, summaryCall,
          wfPc, wfMeeting, wfEvent, emailPromises, completionOrder, wfOutcome,
          ctPc, ctPromises, ctOrder, ctOutcome,
          mcpCall,
          auxCall, subscriptions, registry, reg, env, proc, pc, exitCode,
          toolsListed, isReady, listening, lastResponse, shutdownTimers,
          tool, clock, executions, dispatches,
          pmStatus, unstableRestarts, stableUptime>>

----------------------------------------------------------------------------
\* Optional values: <<>> is undefined/null, <<x>> is the value x.
None == <<>>
Some(x) == <<x>>
IsSome(m) == Len(m) = 1
Get(m) == m[1]

\* Range of a sequence.
Range(s) == {s[i] : i \in 1..Len(s)}

\* All sequences over S of length at most n.
SeqUpTo(S, n) == UNION {[1..k -> S] : k \in 0..n}

----------------------------------------------------------------------------
\* Bounds of the model.
MaxAttendees == 3
MaxToolCalls == 2
MaxSubscriptions == 1
MaxShutdownRequests == 2

\* Recipients and arguments the client passes.
Addresses == {"ann@x.org", "bob@x.org"}

----------------------------------------------------------------------------
(***************************************************************************)
(* composio.tools.execute(slug, {userId, arguments}): the SDK either       *)
(* returns a ToolExecuteResponse {data, error, successful} or throws.      *)
(* A successful response carries the data of the request it answers.       *)
(***************************************************************************)
SdkSuccess(slug, arg) ==
    [kind |-> "result", successful |-> TRUE,
     data |-> Some([slug |-> slug, arg |-> arg]), error |-> None]
SdkFailure(msg) ==
    [kind |-> "result", successful |-> FALSE, data |-> None, error |-> Some(msg)]
SdkThrow(msg) ==
    [kind |-> "throw", successful |-> FALSE, data |-> None, error |-> Some(msg)]

SdkErrors == {"quota exceeded", "connection reset"}

SdkExecuteOutcomes(slug, arg) ==
    {SdkSuccess(slug, arg)}
        \cup {SdkFailure(m) : m \in SdkErrors}
        \cup {SdkThrow(m) : m \in SdkErrors}

SdkFailed(sdk) == sdk.kind = "throw" \/ ~sdk.successful

\* How an async function settles: it returns a value or throws an Error.
Returned(v) == [kind |-> "return", value |-> Some(v), error |-> None]
Thrown(msg) == [kind |-> "throw", value |-> None, error |-> Some(msg)]

----------------------------------------------------------------------------
(***************************************************************************)
(* executeTool (part_001:417-441), given the outcome of                    *)
(* composio.tools.execute: result.data when result.successful, otherwise   *)
(* throw new Error(result.error); the catch block rethrows.                *)
(***************************************************************************)
executeTool_InBand(sdk) ==
    IF sdk.kind = "result" /\ sdk.successful
    THEN Returned(Get(sdk.data))
    ELSE Returned([slug |-> "FAILED", arg |-> Get(sdk.error)])

executeTool_ResultAsValue(sdk) ==
    IF sdk.kind = "throw" THEN Thrown(Get(sdk.error))
    ELSE IF sdk.successful THEN Returned([slug |-> "RESULT", arg |-> "successful"])
    ELSE Thrown(Get(sdk.error))

executeTool(sdk) ==
    IF sdk.kind = "throw" THEN Thrown(Get(sdk.error))
    ELSE IF sdk.successful THEN Returned(Get(sdk.data))
    ELSE Thrown(Get(sdk.error))

----------------------------------------------------------------------------
(***************************************************************************)
(* GoogleWorkspaceAgent (part_001:448-720).                                *)
(***************************************************************************)
Services == {"gmail", "googlecalendar", "googledrive"}
DefaultServices == <<"gmail", "googlecalendar", "googledrive">>

AgentMethods ==
    {"sendEmail", "getRecentEmails", "createCalendarEvent",
     "getUpcomingEvents", "uploadToDrive", "searchDriveFiles"}

\* The service whose connection the method requires (its first statement).
RequiredService(method) ==
    CASE method \in {"sendEmail", "getRecentEmails"} -> "gmail"
      [] method \in {"createCalendarEvent", "getUpcomingEvents"} -> "googlecalendar"
      [] method \in {"uploadToDrive", "searchDriveFiles"} -> "googledrive"

\* The message of the Error the method throws when that service is missing.
NotConnectedMessage(method) ==
    CASE RequiredService(method) = "gmail" ->
            "Gmail not connected. Please authenticate first."
      [] RequiredService(method) = "googlecalendar" ->
            "Google Calendar not connected. Please authenticate first."
      [] RequiredService(method) = "googledrive" ->
            "Google Drive not connected. Please authenticate first."

\* The tool slug the method hands to executeTool.
ToolSlug(method) ==
    CASE method = "sendEmail" -> "GMAIL_SEND_EMAIL"
      [] method = "getRecentEmails" -> "GMAIL_FETCH_EMAILS"
      [] method = "createCalendarEvent" -> "GOOGLECALENDAR_CREATE_EVENT"
      [] method = "getUpcomingEvents" -> "GOOGLECALENDAR_LIST_EVENTS"
      [] method = "uploadToDrive" -> "GOOGLEDRIVE_UPLOAD_FILE"
      [] method = "searchDriveFiles" -> "GOOGLEDRIVE_SEARCH_FILES"

\* getStatus() (part_001:712-719): ready is connectedServices.size > 0.
getStatus(connected) ==
    [connectedServices |-> connected, ready |-> Cardinality(connected) > 0]

\* The guard at the head of every single-tool method.
MayExecute_Always(method, connected) == TRUE

MayExecute(method, connected) == RequiredService(method) \in connected

NoOutcome == [kind |-> "none", value |-> None, error |-> None]
IdleCall ==
    [pc |-> "idle", method |-> "", arg |-> "", sdk |-> None, outcome |-> NoOutcome]
\* seen: tools.length of the getAvailableTools answers of the call so far.
IdleInit ==
    [pc |-> "idle", services |-> <<>>, idx |-> 0, seen |-> <<>>,
     outcome |-> NoOutcome]
IdleSummary ==
    [pc |-> "idle", date |-> "", emails |-> NoOutcome, events |-> NoOutcome,
     outcome |-> NoOutcome]

\* A promise: pending, fulfilled with a value or rejected with an error.
Pending == [state |-> "pending", value |-> None, error |-> None]
Fulfilled(v) == [state |-> "fulfilled", value |-> Some(v), error |-> None]
Rejected(msg) == [state |-> "rejected", value |-> None, error |-> Some(msg)]
PromiseOf(outcome) ==
    IF outcome.kind = "return" THEN Fulfilled(Get(outcome.value))
    ELSE Rejected(Get(outcome.error))

\* No HTTP response on its way to a requester.
NoResponse == [path |-> "", status |-> "", initialized |-> FALSE, tools_count |-> 0]

\* The client starts a top-level call when the previous one has settled and
\* its result has been taken.
Quiescent ==
    /\ agentCall.pc = "idle"
    /\ initCall.pc = "idle"
    /\ summaryCall.pc = "idle"
    /\ wfPc = "idle"
    /\ ctPc = "idle"
    /\ mcpCall.pc = 0
    /\ auxCall.pc = 0
    /\ reg.caller # "client"
    /\ lastResponse = NoResponse

ReturnedVoid == [kind |-> "return", value |-> None, error |-> None]

(***************************************************************************)
(* agent.initialize(services) (part_001:473-493): one getAvailableTools    *)
(* call per service, awaited in turn; a service with at least one tool is  *)
(* added to connectedServices; an exception is rethrown at once.           *)
(***************************************************************************)
InitializeCall(services) ==
    /\ Quiescent
    /\ initCall' = IF Len(services) = 0
                   THEN [IdleInit EXCEPT !.pc = "settled", !.outcome = ReturnedVoid]
                   ELSE [IdleInit EXCEPT !.pc = "running", !.services = services,
                                         !.idx = 1]
    /\ UNCHANGED <<connectedServices, agentCall, summaryCall>>
    /\ UNCHANGED <<pmVars, execVars, wfVars, ctVars, mcpVars, svcVars>>

\* connectedServices after getAvailableTools answered nTools tools for service.
AfterToolsAnswer_AddAlways(connected, service, nTools) == connected \cup {service}

AfterToolsAnswer(connected, service, nTools) ==
    IF nTools > 0 THEN connected \cup {service} ELSE connected

\* getAvailableTools([service]) resolves with nTools tools.
InitializeToolsAnswer(nTools) ==
    /\ initCall.pc = "running"
    /\ connectedServices' =
           AfterToolsAnswer(connectedServices, initCall.services[initCall.idx], nTools)
    /\ initCall' = IF initCall.idx = Len(initCall.services)
                   THEN [initCall EXCEPT !.pc = "settled", !.outcome = ReturnedVoid,
                                         !.seen = Append(@, nTools)]
                   ELSE [initCall EXCEPT !.idx = @ + 1, !.seen = Append(@, nTools)]
    /\ UNCHANGED <<agentCall, summaryCall>>
    /\ UNCHANGED <<pmVars, execVars, wfVars, ctVars, mcpVars, svcVars>>

\* getAvailableTools([service]) rejects: initialize logs and rethrows.
InitializeToolsThrow(msg) ==
    /\ initCall.pc = "running"
    /\ initCall' = [initCall EXCEPT !.pc = "settled", !.outcome = Thrown(msg)]
    /\ UNCHANGED <<connectedServices, agentCall, summaryCall>>
    /\ UNCHANGED <<pmVars, execVars, wfVars, ctVars, mcpVars, svcVars>>

\* The caller takes the settled result of initialize.
InitializeTaken ==
    /\ initCall.pc = "settled"
    /\ initCall' = IdleInit
    /\ UNCHANGED <<connectedServices, agentCall, summaryCall>>
    /\ UNCHANGED <<pmVars, execVars, wfVars, ctVars, mcpVars, svcVars>>

(***************************************************************************)
(* The single-tool methods sendEmail, getRecentEmails, createCalendarEvent,*)
(* getUpcomingEvents, uploadToDrive, searchDriveFiles (part_001:498-619):  *)
(* throw when the service is not connected, otherwise                      *)
(* return await executeTool(slug, userId, params).                         *)
(***************************************************************************)
AgentMethodCall(method, arg) ==
    /\ Quiescent
    /\ agentCall' =
          IF MayExecute(method, connectedServices)
          THEN [IdleCall EXCEPT !.pc = "pending", !.method = method, !.arg = arg]
          ELSE [IdleCall EXCEPT !.pc = "settled", !.method = method, !.arg = arg,
                                !.outcome = Thrown(NotConnectedMessage(method))]
    /\ UNCHANGED <<connectedServices, initCall, summaryCall>>
    /\ UNCHANGED <<pmVars, execVars, wfVars, ctVars, mcpVars, svcVars>>

\* composio.tools.execute settles; executeTool and the method settle with it.
AgentMethodSettle ==
    /\ agentCall.pc = "pending"
    /\ \E sdk \in SdkExecuteOutcomes(ToolSlug(agentCall.method), agentCall.arg) :
          agentCall' = [agentCall EXCEPT !.pc = "settled", !.sdk = Some(sdk),
                                        !.outcome = executeTool(sdk)]
    /\ UNCHANGED <<connectedServices, initCall, summaryCall>>
    /\ UNCHANGED <<pmVars, execVars, wfVars, ctVars, mcpVars, svcVars>>

\* The caller takes the settled result of the method.
AgentMethodTaken ==
    /\ agentCall.pc = "settled"
    /\ agentCall' = IdleCall
    /\ UNCHANGED <<connectedServices, initCall, summaryCall>>
    /\ UNCHANGED <<pmVars, execVars, wfVars, ctVars, mcpVars, svcVars>>

----------------------------------------------------------------------------
(***************************************************************************)
(* Promise.all(promises), as scheduleMeetingWithInvites (part_001:657) and *)
(* initializeCustomTools (part_001:274-279) use it: rejected with the      *)
(* error of the promise that was rejected first, fulfilled with the values *)
(* in the order of the input array once every promise is fulfilled.        *)
(* order lists the indices of the settled promises as they settled.        *)
(***************************************************************************)
FirstRejected(promises, order) ==
    LET rej == {k \in 1..Len(order) : promises[order[k]].state = "rejected"}
    IN  IF rej = {} THEN 0
        ELSE order[CHOOSE k \in rej : \A j \in rej : k <= j]

PromiseAll_CompletionOrder(promises, order) ==
    IF FirstRejected(promises, order) # 0
    THEN [state |-> "rejected", values |-> <<>>,
          error |-> promises[FirstRejected(promises, order)].error]
    ELSE IF \A i \in 1..Len(promises) : promises[i].state = "fulfilled"
    THEN [state |-> "fulfilled",
          values |-> [k \in 1..Len(promises) |-> Get(promises[order[k]].value)],
          error |-> None]
    ELSE [state |-> "pending", values |-> <<>>, error |-> None]

PromiseAll(promises, order) ==
    IF FirstRejected(promises, order) # 0
    THEN [state |-> "rejected", values |-> <<>>,
          error |-> promises[FirstRejected(promises, order)].error]
    ELSE IF \A i \in 1..Len(promises) : promises[i].state = "fulfilled"
    THEN [state |-> "fulfilled",
          values |-> [i \in 1..Len(promises) |-> Get(promises[i].value)],
          error |-> None]
    ELSE [state |-> "pending", values |-> <<>>, error |-> None]

(***************************************************************************)
(* scheduleMeetingWithInvites (part_001:624-662).                          *)
(***************************************************************************)
Titles == {"Review"}
Meetings == [title : Titles, attendees : SeqUpTo(Addresses, MaxAttendees)]
NoMeeting == [title |-> "", attendees |-> <<>>]
NoWfOutcome == [kind |-> "none", event |-> None, emailsSent |-> <<>>, error |-> None]

\* The promise this.sendEmail(attendee, ...) returns when it is called.
SendEmailPromise(connected) ==
    IF MayExecute("sendEmail", connected)
    THEN Pending
    ELSE Rejected(NotConnectedMessage("sendEmail"))

\* meeting.attendees.map(async attendee => ...): every sendEmail call is made,
\* in the order of the attendees, before the first await.
MapSendEmail(attendees, connected) ==
    [i \in 1..Len(attendees) |-> SendEmailPromise(connected)]

\* The indices of the promises already settled when the array is built.
SettledAtStart(promises) ==
    IF \A i \in 1..Len(promises) : promises[i].state = "pending"
    THEN <<>>
    ELSE [i \in 1..Len(promises) |-> i]

\* const emailsSent = await Promise.all(emailPromises); return { event, emailsSent }
\* The workflow's position and outcome for the batch as it stands.
WorkflowAfterBatch(event, all) ==
    CASE all.state = "fulfilled" ->
            [pc |-> "returned",
             outcome |-> [kind |-> "return", event |-> event,
                          emailsSent |-> all.values, error |-> None]]
      [] all.state = "rejected" ->
            [pc |-> "thrown",
             outcome |-> [kind |-> "throw", event |-> None,
                          emailsSent |-> <<>>, error |-> all.error]]
      [] OTHER -> [pc |-> "emails", outcome |-> NoWfOutcome]

\* The call: const event = await this.createCalendarEvent(meeting)
ScheduleMeetingCall_EmailsFirst(meeting) ==
    /\ Quiescent
    /\ wfMeeting' = meeting
    /\ wfPc' = "event"
    /\ wfOutcome' = NoWfOutcome
    /\ emailPromises' = MapSendEmail(meeting.attendees, connectedServices)
    /\ completionOrder' = <<>>
    /\ UNCHANGED wfEvent
    /\ UNCHANGED <<pmVars, execVars, agentVars, ctVars, mcpVars, svcVars>>

ScheduleMeetingCall(meeting) ==
    /\ Quiescent
    /\ wfMeeting' = meeting
    /\ IF MayExecute("createCalendarEvent", connectedServices)
       THEN /\ wfPc' = "event"
            /\ wfOutcome' = NoWfOutcome
       ELSE /\ wfPc' = "thrown"
            /\ wfOutcome' = [NoWfOutcome EXCEPT !.kind = "throw",
                    !.error = Some(NotConnectedMessage("createCalendarEvent"))]
    /\ UNCHANGED <<wfEvent, emailPromises, completionOrder>>
    /\ UNCHANGED <<pmVars, execVars, agentVars, ctVars, mcpVars, svcVars>>

\* createCalendarEvent settles; on success the invitations are started.
ScheduleMeetingEventSettles ==
    /\ wfPc = "event"
    /\ \E sdk \in SdkExecuteOutcomes(ToolSlug("createCalendarEvent"), wfMeeting.title) :
          LET out == executeTool(sdk)
              promises == MapSendEmail(wfMeeting.attendees, connectedServices)
              order == SettledAtStart(promises)
              after == WorkflowAfterBatch(out.value, PromiseAll(promises, order))
          IN  IF out.kind = "throw"
              THEN /\ wfPc' = "thrown"
                   /\ wfOutcome' = [NoWfOutcome EXCEPT !.kind = "throw",
                                                       !.error = out.error]
                   /\ UNCHANGED <<wfEvent, emailPromises, completionOrder>>
              ELSE /\ wfEvent' = out.value
                   /\ emailPromises' = promises
                   /\ completionOrder' = order
                   /\ wfPc' = after.pc
                   /\ wfOutcome' = after.outcome
    /\ UNCHANGED wfMeeting
    /\ UNCHANGED <<pmVars, execVars, agentVars, ctVars, mcpVars, svcVars>>

\* The sendEmail call for attendee i settles (in any order among the pending
\* ones); Promise.all and the workflow settle when this decides the batch.
ScheduleMeetingEmailSettles(i) ==
    /\ wfPc \in {"emails", "thrown"}
    /\ i \in 1..Len(emailPromises)
    /\ emailPromises[i].state = "pending"
    /\ \E sdk \in SdkExecuteOutcomes(ToolSlug("sendEmail"), wfMeeting.attendees[i]) :
          LET promises == [emailPromises EXCEPT ![i] = PromiseOf(executeTool(sdk))]
              order == Append(completionOrder, i)
              after == WorkflowAfterBatch(wfEvent, PromiseAll(promises, order))
          IN  /\ emailPromises' = promises
              /\ completionOrder' = order
              /\ IF wfPc = "emails"
                 THEN wfPc' = after.pc /\ wfOutcome' = after.outcome
                 ELSE UNCHANGED <<wfPc, wfOutcome>>
    /\ UNCHANGED <<wfMeeting, wfEvent>>
    /\ UNCHANGED <<pmVars, execVars, agentVars, ctVars, mcpVars, svcVars>>

\* The caller takes the settled result, once no request is left in flight.
ScheduleMeetingTaken ==
    /\ wfPc \in {"returned", "thrown"}
    /\ \A i \in 1..Len(emailPromises) : emailPromises[i].state # "pending"
    /\ wfPc' = "idle"
    /\ wfMeeting' = NoMeeting
    /\ wfEvent' = None
    /\ emailPromises' = <<>>
    /\ completionOrder' = <<>>
    /\ wfOutcome' = NoWfOutcome
    /\ UNCHANGED <<pmVars, execVars, agentVars, ctVars, mcpVars, svcVars>>

----------------------------------------------------------------------------
(***************************************************************************)
(* generateDailySummary (part_001:667-707):                                *)
(*   try { emails = await this.getRecentEmails(50, query)                  *)
(*         events = await this.getUpcomingEvents(20, dayStart)             *)
(*         return summary }                                                *)
(*   catch (error) { return `Failed to generate summary: ${error}` }       *)
(* A text is the sequence of the fragments of its template literal.        *)
(***************************************************************************)
Dates == {"2026-11-01"}
FailedPrefix == "Failed to generate summary: "

\* `Failed to generate summary: ${error}`: an Error prints as Error: message.
SummaryFailure(msg) == <<FailedPrefix, "Error: " \o msg>>

\* The summary built from the fetched emails and events.
SummaryText(date, emails, events) ==
    <<"Daily Summary for ", date, "EMAIL ACTIVITY", emails, "CALENDAR EVENTS",
      events>>

\* What the method settles with, given how the fetches it made settled.
DailySummaryResult_Rethrow(date, emails, events) ==
    IF emails.kind = "throw" THEN Thrown(Get(emails.error))
    ELSE IF events.kind = "throw" THEN Thrown(Get(events.error))
    ELSE Returned(SummaryText(date, Get(emails.value), Get(events.value)))

DailySummaryResult(date, emails, events) ==
    IF emails.kind = "throw" THEN Returned(SummaryFailure(Get(emails.error)))
    ELSE IF events.kind = "throw" THEN Returned(SummaryFailure(Get(events.error)))
    ELSE Returned(SummaryText(date, Get(emails.value), Get(events.value)))

\* The method after one of its fetches settled as fetched: a rejection goes
\* to the catch block; after the emails the events are requested, unless the
\* guard of getUpcomingEvents throws.
SummaryAfterFetch(call, method, fetched) ==
    LET c == IF method = "getRecentEmails"
             THEN [call EXCEPT !.emails = fetched]
             ELSE [call EXCEPT !.events = fetched]
    IN  IF fetched.kind = "throw" \/ method = "getUpcomingEvents"
        THEN [c EXCEPT !.pc = "settled",
                       !.outcome = DailySummaryResult(c.date, c.emails, c.events)]
        ELSE IF MayExecute("getUpcomingEvents", connectedServices)
        THEN [c EXCEPT !.pc = "events"]
        ELSE LET refused == Thrown(NotConnectedMessage("getUpcomingEvents"))
             IN  [c EXCEPT !.pc = "settled", !.events = refused,
                           !.outcome = DailySummaryResult(c.date, c.emails, refused)]

\* The call, up to the first await.
GenerateDailySummaryCall(date) ==
    /\ Quiescent
    /\ summaryCall' =
          IF MayExecute("getRecentEmails", connectedServices)
          THEN [IdleSummary EXCEPT !.pc = "emails", !.date = date]
          ELSE SummaryAfterFetch([IdleSummary EXCEPT !.date = date], "getRecentEmails",
                                 Thrown(NotConnectedMessage("getRecentEmails")))
    /\ UNCHANGED <<connectedServices, agentCall, initCall>>
    /\ UNCHANGED <<pmVars, execVars, wfVars, ctVars, mcpVars, svcVars>>

\* The fetch in flight settles.
SummaryFetchSettles ==
    /\ summaryCall.pc \in {"emails", "events"}
    /\ LET method == IF summaryCall.pc = "emails" THEN "getRecentEmails"
                     ELSE "getUpcomingEvents"
       IN  \E sdk \in SdkExecuteOutcomes(ToolSlug(method), summaryCall.date) :
              summaryCall' = SummaryAfterFetch(summaryCall, method, executeTool(sdk))
    /\ UNCHANGED <<connectedServices, agentCall, initCall>>
    /\ UNCHANGED <<pmVars, execVars, wfVars, ctVars, mcpVars, svcVars>>

\* The caller takes the settled result.
SummaryTaken ==
    /\ summaryCall.pc = "settled"
    /\ summaryCall' = IdleSummary
    /\ UNCHANGED <<connectedServices, agentCall, initCall>>
    /\ UNCHANGED <<pmVars, execVars, wfVars, ctVars, mcpVars, svcVars>>

----------------------------------------------------------------------------
(***************************************************************************)
(* initializeCustomTools of the custom-tools module (part_001:270-291):    *)
(*   tools = await Promise.all([createEmailAnalyticsTool(),                *)
(*             createMeetingOptimizerTool(),                               *)
(*             createDocumentIntelligenceTool(),                           *)
(*             createWorkflowAutomationTool()])                            *)
(* Each create...Tool returns await composio.tools.createCustomTool({...}).*)
(***************************************************************************)
CustomToolSlugs ==
    <<"EMAIL_ANALYTICS", "MEETING_OPTIMIZER", "DOCUMENT_INTELLIGENCE",
      "WORKSPACE_WORKFLOW">>

NoCtOutcome == [kind |-> "none", tools |-> <<>>, error |-> None]

\* The tool createCustomTool answers for the declaration with this slug.
CreatedTool(slug) == [slug |-> slug, arg |-> "custom"]

\* The array literal: the four calls are made in source order.
CustomToolCalls == [i \in 1..Len(CustomToolSlugs) |-> Pending]

\* The call after the batch stands as all: return tools, or catch and rethrow.
CustomToolsAfterBatch(all) ==
    CASE all.state = "fulfilled" ->
            [pc |-> "returned",
             outcome |-> [kind |-> "return", tools |-> all.values, error |-> None]]
      [] all.state = "rejected" ->
            [pc |-> "thrown",
             outcome |-> [kind |-> "throw", tools |-> <<>>, error |-> all.error]]
      [] OTHER -> [pc |-> "creating", outcome |-> NoCtOutcome]

InitializeCustomToolsCall ==
    /\ Quiescent
    /\ ctPc' = "creating"
    /\ ctPromises' = CustomToolCalls
    /\ ctOrder' = <<>>
    /\ ctOutcome' = NoCtOutcome
    /\ UNCHANGED <<pmVars, execVars, agentVars, wfVars, mcpVars, svcVars>>

\* createCustomTool for the i-th declaration settles, in any order.
CreateCustomToolSettles(i) ==
    /\ ctPc \in {"creating", "thrown"}
    /\ i \in 1..Len(ctPromises)
    /\ ctPromises[i].state = "pending"
    /\ \E answer \in {Returned(CreatedTool(CustomToolSlugs[i]))}
                        \cup {Thrown(m) : m \in SdkErrors} :
          LET promises == [ctPromises EXCEPT ![i] = PromiseOf(answer)]
              order == Append(ctOrder, i)
              after == CustomToolsAfterBatch(PromiseAll(promises, order))
          IN  /\ ctPromises' = promises
              /\ ctOrder' = order
              /\ IF ctPc = "creating"
                 THEN ctPc' = after.pc /\ ctOutcome' = after.outcome
                 ELSE UNCHANGED <<ctPc, ctOutcome>>
    /\ UNCHANGED <<pmVars, execVars, agentVars, wfVars, mcpVars, svcVars>>

InitializeCustomToolsTaken ==
    /\ ctPc \in {"returned", "thrown"}
    /\ \A i \in 1..Len(ctPromises) : ctPromises[i].state # "pending"
    /\ ctPc' = "idle"
    /\ ctPromises' = <<>>
    /\ ctOrder' = <<>>
    /\ ctOutcome' = NoCtOutcome
    /\ UNCHANGED <<pmVars, execVars, agentVars, wfVars, mcpVars, svcVars>>

----------------------------------------------------------------------------
(***************************************************************************)
(* The custom tools of GoogleWorkspaceMCP (index.ts:373-2596): the slug of *)
(* every composio.tools.createCustomTool call, per create...CustomTools    *)
(* method, in source order.                                                *)
(***************************************************************************)
\* createGmailCustomTools (index.ts:394-723): 14 createCustomTool calls.
GmailSlugs ==
    <<"GMAIL_GET_MESSAGES_CONTENT_BATCH",
      "GMAIL_GET_THREADS_CONTENT_BATCH", "GMAIL_DRAFT_MESSAGE",
      "GMAIL_BATCH_MODIFY_LABELS", "GMAIL_CREATE_LABEL",
      "GMAIL_SEARCH_MESSAGES_FILTERS", "GMAIL_GET_MESSAGE_RAW",
      "GMAIL_BATCH_DELETE_MESSAGES", "GMAIL_GET_USER_PROFILE",
      "GMAIL_WATCH_MAILBOX", "GMAIL_GET_ATTACHMENT",
      "GMAIL_BATCH_ARCHIVE_MESSAGES", "GMAIL_GET_HISTORY",
      "GMAIL_STOP_WATCH">>

\* createCalendarCustomTools (index.ts:728-872): 5 createCustomTool calls.
CalendarSlugs ==
    <<"CALENDAR_LIST_EVENTS_FILTERS", "CALENDAR_GET_EVENT",
      "CALENDAR_UPDATE_EVENT", "CALENDAR_DELETE_EVENT",
      "CALENDAR_LIST_CALENDARS">>

\* createDriveCustomTools (index.ts:874-1040): 6 createCustomTool calls.
DriveSlugs ==
    <<"DRIVE_SEARCH_FILES_FILTERS", "DRIVE_GET_FILE_CONTENT",
      "DRIVE_UPLOAD_FILE", "DRIVE_CREATE_FOLDER", "DRIVE_COPY_FILE",
      "DRIVE_BATCH_GET_METADATA">>

\* createDocsCustomTools (index.ts:1042-1410): 14 createCustomTool calls.
DocsSlugs ==
    <<"DOCS_GET_CONTENT_STRUCTURE", "DOCS_BATCH_UPDATE_CONTENT",
      "DOCS_INSERT_IMAGE", "DOCS_CREATE_FROM_TEMPLATE",
      "DOCS_REPLACE_TEXT", "DOCS_GET_SUGGESTIONS",
      "DOCS_APPLY_FORMATTING", "DOCS_INSERT_TABLE",
      "DOCS_GET_REVISION_HISTORY", "DOCS_EXPORT_DOCUMENT",
      "DOCS_INSERT_PAGE_BREAK", "DOCS_BATCH_GET_METADATA",
      "DOCS_CREATE_NAMED_RANGE", "DOCS_GET_OUTLINE">>

\* createSheetsCustomTools (index.ts:1412-1555): 6 createCustomTool calls.
SheetsSlugs ==
    <<"SHEETS_LIST_SPREADSHEETS", "SHEETS_GET_SPREADSHEET_INFO",
      "SHEETS_READ_SHEET_VALUES", "SHEETS_MODIFY_SHEET_VALUES",
      "SHEETS_CREATE_SPREADSHEET", "SHEETS_CREATE_SHEET">>

\* createSlidesCustomTools (index.ts:1557-1677): 5 createCustomTool calls.
SlidesSlugs ==
    <<"SLIDES_CREATE_PRESENTATION", "SLIDES_GET_PRESENTATION",
      "SLIDES_BATCH_UPDATE_PRESENTATION", "SLIDES_GET_PAGE",
      "SLIDES_GET_PAGE_THUMBNAIL">>

\* createFormsCustomTools (index.ts:1679-1808): 5 createCustomTool calls.
FormsSlugs ==
    <<"FORMS_CREATE_FORM", "FORMS_GET_FORM",
      "FORMS_SET_PUBLISH_SETTINGS", "FORMS_GET_FORM_RESPONSE",
      "FORMS_LIST_FORM_RESPONSES">>

\* createChatCustomTools (index.ts:1810-1911): 4 createCustomTool calls.
ChatSlugs ==
    <<"CHAT_LIST_SPACES", "CHAT_GET_MESSAGES", "CHAT_SEND_MESSAGE",
      "CHAT_SEARCH_MESSAGES">>

\* createSearchCustomTools (index.ts:1913-1998): 3 createCustomTool calls.
SearchSlugs ==
    <<"SEARCH_CUSTOM", "SEARCH_GET_SEARCH_ENGINE_INFO",
      "SEARCH_CUSTOM_SITERESTRICT">>

\* createTasksCustomTools (index.ts:2000-2310): 12 createCustomTool calls.
TasksSlugs ==
    <<"TASKS_LIST_TASK_LISTS", "TASKS_GET_TASK_LIST",
      "TASKS_CREATE_TASK_LIST", "TASKS_UPDATE_TASK_LIST",
      "TASKS_DELETE_TASK_LIST", "TASKS_LIST_TASKS", "TASKS_GET_TASK",
      "TASKS_CREATE_TASK", "TASKS_UPDATE_TASK", "TASKS_DELETE_TASK",
      "TASKS_MOVE_TASK", "TASKS_CLEAR_COMPLETED_TASKS">>

\* createCommentCustomTools (index.ts:2315-2596): 12 createCustomTool calls.
CommentSlugs_Duplicate ==
    <<"DOCS_READ_COMMENTS", "DOCS_CREATE_COMMENT", "DOCS_REPLY_COMMENT",
      "DOCS_RESOLVE_COMMENT", "SHEETS_READ_COMMENTS",
      "SHEETS_CREATE_COMMENT", "SHEETS_REPLY_COMMENT",
      "SHEETS_RESOLVE_COMMENT", "SLIDES_READ_COMMENTS",
      "SLIDES_CREATE_COMMENT", "SLIDES_REPLY_COMMENT",
      "DOCS_RESOLVE_COMMENT">>

CommentSlugs ==
    <<"DOCS_READ_COMMENTS", "DOCS_CREATE_COMMENT", "DOCS_REPLY_COMMENT",
      "DOCS_RESOLVE_COMMENT", "SHEETS_READ_COMMENTS",
      "SHEETS_CREATE_COMMENT", "SHEETS_REPLY_COMMENT",
      "SHEETS_RESOLVE_COMMENT", "SLIDES_READ_COMMENTS",
      "SLIDES_CREATE_COMMENT", "SLIDES_REPLY_COMMENT",
      "SLIDES_RESOLVE_COMMENT">>

\* initializeCustomTools (index.ts:373-389) awaits the eleven methods in
\* this order.
AllToolSlugs ==
    GmailSlugs \o CalendarSlugs \o DriveSlugs \o DocsSlugs \o SheetsSlugs
        \o SlidesSlugs \o FormsSlugs \o ChatSlugs \o SearchSlugs \o TasksSlugs
        \o CommentSlugs

\* The eleven create...CustomTools methods in the order initializeCustomTools
\* awaits them, each with its createCustomTool calls, the number its closing
\* console.log announces, and the number the documentation lists for it
\* (SERVICE-SETUP.md:105-116; the comment tools are listed as 4 + 4 + 4).
ToolGroups ==
    <<[method |-> "createGmailCustomTools", slugs |-> GmailSlugs,
       logged |-> 11, documented |-> 11],
      [method |-> "createCalendarCustomTools", slugs |-> CalendarSlugs,
       logged |-> 5, documented |-> 5],
      [method |-> "createDriveCustomTools", slugs |-> DriveSlugs,
       logged |-> 6, documented |-> 6],
      [method |-> "createDocsCustomTools", slugs |-> DocsSlugs,
       logged |-> 14, documented |-> 14],
      [method |-> "createSheetsCustomTools", slugs |-> SheetsSlugs,
       logged |-> 6, documented |-> 6],
      [method |-> "createSlidesCustomTools", slugs |-> SlidesSlugs,
       logged |-> 5, documented |-> 5],
      [method |-> "createFormsCustomTools", slugs |-> FormsSlugs,
       logged |-> 5, documented |-> 5],
      [method |-> "createChatCustomTools", slugs |-> ChatSlugs,
       logged |-> 4, documented |-> 4],
      [method |-> "createSearchCustomTools", slugs |-> SearchSlugs,
       logged |-> 3, documented |-> 3],
      [method |-> "createTasksCustomTools", slugs |-> TasksSlugs,
       logged |-> 12, documented |-> 12],
      [method |-> "createCommentCustomTools", slugs |-> CommentSlugs,
       logged |-> 10, documented |-> 12]>>

\* The native tools the methods of GoogleWorkspaceMCP request by slug
\* (index.ts:2635-2665).
NativeToolSlugs ==
    <<"GMAIL_SEND_EMAIL", "GMAIL_GET_MESSAGE", "GMAIL_SEARCH_MESSAGES",
      "GMAIL_GET_THREAD", "GMAIL_MODIFY_LABELS", "GMAIL_LIST_LABELS",
      "GOOGLECALENDAR_CREATE_EVENT", "GOOGLECALENDAR_LIST_EVENTS",
      "GOOGLECALENDAR_UPDATE_EVENT", "GOOGLECALENDAR_DELETE_EVENT",
      "GOOGLEDRIVE_UPLOAD_FILE", "GOOGLEDRIVE_SEARCH_FILES",
      "GOOGLEDRIVE_GET_FILE", "GOOGLEDRIVE_DELETE_FILE",
      "GOOGLEDOCS_CREATE_DOCUMENT", "GOOGLEDOCS_GET_DOCUMENT",
      "GOOGLEDOCS_UPDATE_DOCUMENT", "GOOGLESHEETS_CREATE_SPREADSHEET",
      "GOOGLESHEETS_READ_VALUES", "GOOGLESHEETS_UPDATE_VALUES">>

(***************************************************************************)
(* The registry of custom tools: the registered declarations in insertion  *)
(* order, each with the caller whose createCustomTool call stored it.      *)
(* createCustomTool is called with the declaration as it stands            *)
(* (index.ts:396-416 and the like): the code looks up nothing before the   *)
(* call, so a call that succeeds stores the declaration under its slug,    *)
(* replacing the one stored there.                                         *)
(***************************************************************************)
IndexOfSlug(registered, slug) ==
    IF \E i \in 1..Len(registered) : registered[i].slug = slug
    THEN CHOOSE i \in 1..Len(registered) : registered[i].slug = slug
    ELSE 0

createCustomTool_KeepFirst(registered, slug, caller) ==
    IF IndexOfSlug(registered, slug) = 0
    THEN Append(registered, [slug |-> slug, by |-> caller])
    ELSE registered

createCustomTool(registered, slug, caller) ==
    IF IndexOfSlug(registered, slug) = 0
    THEN Append(registered, [slug |-> slug, by |-> caller])
    ELSE [registered EXCEPT ![IndexOfSlug(registered, slug)] =
                                [slug |-> slug, by |-> caller]]

RECURSIVE RegisterAll(_, _, _)
RegisterAll(registered, slugs, caller) ==
    IF slugs = <<>> THEN registered
    ELSE RegisterAll(createCustomTool(registered, Head(slugs), caller), Tail(slugs),
                     caller)

\* The createCustomTool calls in the body of each operation that can run
\* once the tools are initialized: the HTTP handlers (part_001:749-776) and
\* the methods of GoogleWorkspaceMCP after the create...CustomTools methods
\* (index.ts:2602-2825) contain none.
PostStartupOperations ==
    {"/health", "/status", "/shutdown", "getGoogleWorkspaceTools", "sendEmail",
     "searchGmailMessages", "createCalendarEvent", "setupGmailTrigger",
     "initializeAuthentication"}

CreateCustomToolCalls_InSendEmail(operation) ==
    IF operation = "sendEmail" THEN <<"GMAIL_SEND_EMAIL">> ELSE <<>>

CreateCustomToolCalls(operation) == <<>>

\* The registry after the operation has run its createCustomTool calls.
RegistryAfter(registered, operation) ==
    RegisterAll(registered, CreateCustomToolCalls(operation), operation)

\* The GoogleWorkspaceMCP object is in the hands of a caller: used as a
\* library, or handed out by getMCPServer (part_001:810-812) of a service that
\* startService has started.
McpAlive == pc \in {"listening", "library"}

----------------------------------------------------------------------------
(***************************************************************************)
(* GoogleWorkspaceMCP.sendEmail / searchGmailMessages / createCalendarEvent*)
(* (index.ts:2679-2788). Each is                                           *)
(*   try { tools  = await this.composio.tools.get(userId, {tools: [slug]}) *)
(*         msg    = await this.anthropic.messages.create({..., tools})     *)
(*         result = await this.composio.provider.handleToolCalls(userId,   *)
(*                                                               msg)      *)
(*         return result }                                                 *)
(*   catch (error) { console.error(...); throw error }                     *)
(***************************************************************************)
McpMethods == {"sendEmail", "searchGmailMessages", "createCalendarEvent"}

\* The one native tool each method requests.
McpToolSlug(method) ==
    CASE method = "sendEmail" -> "GMAIL_SEND_EMAIL"
      [] method = "searchGmailMessages" -> "GMAIL_SEARCH_MESSAGES"
      [] method = "createCalendarEvent" -> "GOOGLECALENDAR_CREATE_EVENT"

\* The statements of the try block, in program order.
McpSteps == <<"tools.get", "messages.create", "handleToolCalls", "return">>

IdleMcp ==
    [pc |-> 0, method |-> "", arg |-> "", trace |-> <<>>,
     tools |-> <<>>, msg |-> None, dispatch |-> None, outcome |-> NoOutcome]

\* What the three awaited calls can answer.
\* tools.get: the definitions of the requested tools.
ToolsGetAnswers(method) == {Returned(<<McpToolSlug(method)>>)}
\* messages.create: a message with zero or more tool_use blocks for the
\* tools it was given.
LlmAnswers(tools, arg) ==
    {Returned([toolCalls |-> [k \in 1..n |-> [slug |-> tools[1], arg |-> arg]]]) :
        n \in 0..MaxToolCalls}
\* handleToolCalls: one result per tool call, each successful or not.
ToolCallResults(call) ==
    {[successful |-> TRUE, data |-> Some(call), error |-> None]}
        \cup {[successful |-> FALSE, data |-> None, error |-> Some(m)] : m \in SdkErrors}
DispatchAnswers(msg) ==
    LET calls == msg.toolCalls
        results == UNION {ToolCallResults(calls[k]) : k \in 1..Len(calls)}
    IN  {Returned(r) : r \in {g \in [1..Len(calls) -> results] :
                                \A k \in 1..Len(calls) : g[k] \in ToolCallResults(calls[k])}}

\* The method after the awaited call of step call.pc settled with answer:
\* a rejection goes to the catch block, which rethrows; a value is bound and
\* the next statement runs (the last one returns the dispatch result).
McpAfterAwait_Swallow(call, answer) ==
    IF call.pc = 3
    THEN [call EXCEPT !.pc = 4, !.trace = Append(@, McpSteps[4]),
                      !.dispatch = Some(answer),
                      !.outcome = IF answer.kind = "throw" THEN Returned(<<>>)
                                  ELSE Returned(Get(answer.value))]
    ELSE IF answer.kind = "throw"
    THEN [call EXCEPT !.pc = call.pc + 1, !.trace = Append(@, McpSteps[call.pc + 1])]
    ELSE IF call.pc = 1
    THEN [call EXCEPT !.pc = 2, !.trace = Append(@, McpSteps[2]),
                      !.tools = Get(answer.value)]
    ELSE [call EXCEPT !.pc = 3, !.trace = Append(@, McpSteps[3]),
                      !.msg = answer.value]

McpAfterAwait(call, answer) ==
    IF answer.kind = "throw"
    THEN [call EXCEPT !.pc = 5, !.outcome = Thrown(Get(answer.error)),
                      !.dispatch = IF call.pc = 3 THEN Some(answer) ELSE @]
    ELSE CASE call.pc = 1 ->
                [call EXCEPT !.pc = 2, !.trace = Append(@, McpSteps[2]),
                             !.tools = Get(answer.value)]
           [] call.pc = 2 ->
                [call EXCEPT !.pc = 3, !.trace = Append(@, McpSteps[3]),
                             !.msg = answer.value]
           [] call.pc = 3 ->
                [call EXCEPT !.pc = 4, !.trace = Append(@, McpSteps[4]),
                             !.dispatch = Some(answer),
                             !.outcome = Returned(Get(answer.value))]

\* pc: 0 idle, 1..3 awaiting McpSteps[pc], 4 returned, 5 thrown.
McpSettled(call) == call.pc \in {4, 5}

McpMethodCall(method, arg) ==
    /\ McpAlive
    /\ Quiescent
    /\ mcpCall' = [IdleMcp EXCEPT !.pc = 1, !.method = method, !.arg = arg,
                                  !.trace = <<McpSteps[1]>>]
    /\ registry' = RegistryAfter(registry, method)
    /\ UNCHANGED <<pmVars, execVars, agentVars, wfVars, ctVars, svcRest>>

McpToolsGetSettles ==
    /\ McpAlive
    /\ mcpCall.pc = 1
    /\ \E answer \in ToolsGetAnswers(mcpCall.method) \cup {Thrown(m) : m \in SdkErrors} :
          mcpCall' = McpAfterAwait(mcpCall, answer)
    /\ UNCHANGED <<pmVars, execVars, agentVars, wfVars, ctVars, svcVars>>

McpLlmSettles ==
    /\ McpAlive
    /\ mcpCall.pc = 2
    /\ \E answer \in LlmAnswers(mcpCall.tools, mcpCall.arg)
                        \cup {Thrown(m) : m \in SdkErrors} :
          mcpCall' = McpAfterAwait(mcpCall, answer)
    /\ UNCHANGED <<pmVars, execVars, agentVars, wfVars, ctVars, svcVars>>

McpDispatchSettles ==
    /\ McpAlive
    /\ mcpCall.pc = 3
    /\ \E answer \in DispatchAnswers(Get(mcpCall.msg))
                        \cup {Thrown(m) : m \in SdkErrors} :
          mcpCall' = McpAfterAwait(mcpCall, answer)
    /\ UNCHANGED <<pmVars, execVars, agentVars, wfVars, ctVars, svcVars>>

McpMethodTaken ==
    /\ McpAlive
    /\ McpSettled(mcpCall)
    /\ mcpCall' = IdleMcp
    /\ UNCHANGED <<pmVars, execVars, agentVars, wfVars, ctVars, svcVars>>

----------------------------------------------------------------------------
(***************************************************************************)
(* getGoogleWorkspaceTools (index.ts:2630-2674), initializeAuthentication  *)
(* (index.ts:2602-2624) and setupGmailTrigger (index.ts:2793-2825).        *)
(* pc: 0 idle, 1 and 2 awaiting the first and second SDK call, 4 returned, *)
(* 5 thrown.                                                               *)
(***************************************************************************)
AuxMethods == {"getGoogleWorkspaceTools", "initializeAuthentication", "setupGmailTrigger"}
TriggerIds == {"trg_1", "trg_2"}
IdleAux == [pc |-> 0, method |-> "", waited |-> FALSE, outcome |-> NoOutcome]

\* What the first awaited call of each method can answer: the tools, a
\* connection request with or without a redirectUrl, the created trigger.
AuxFirstAnswers(method) ==
    CASE method = "getGoogleWorkspaceTools" -> {Returned("tools")}
      [] method = "initializeAuthentication" ->
            {Returned("redirectUrl"), Returned("noRedirectUrl")}
      [] method = "setupGmailTrigger" -> {Returned(t) : t \in TriggerIds}

\* The call after its first awaited SDK call settled with answer.
AuxAfterFirst(call, answer) ==
    IF answer.kind = "throw"
    THEN [call EXCEPT !.pc = 5, !.outcome = Thrown(Get(answer.error))]
    ELSE CASE call.method = "getGoogleWorkspaceTools" ->
                [call EXCEPT !.pc = 4, !.outcome = answer]
           [] call.method = "initializeAuthentication" ->
                IF Get(answer.value) = "redirectUrl"
                THEN [call EXCEPT !.pc = 2]
                ELSE [call EXCEPT !.pc = 4, !.outcome = ReturnedVoid]
           [] call.method = "setupGmailTrigger" ->
                [call EXCEPT !.pc = 4, !.outcome = answer]

\* this.composio.triggers.subscribe(callback, {triggerId: trigger.triggerId})
SubscriptionsAfterFirst_Always(subs, method, answer) ==
    IF method = "setupGmailTrigger"
    THEN Append(subs, IF answer.kind = "return" THEN Get(answer.value) ELSE "")
    ELSE subs

SubscriptionsAfterFirst(subs, method, answer) ==
    IF method = "setupGmailTrigger" /\ answer.kind = "return"
    THEN Append(subs, Get(answer.value))
    ELSE subs

\* connectionRequest.waitForConnection() settled with answer.
AuxAfterWait(call, answer) ==
    IF answer.kind = "throw"
    THEN [call EXCEPT !.pc = 5, !.outcome = Thrown(Get(answer.error))]
    ELSE [call EXCEPT !.pc = 4, !.waited = TRUE, !.outcome = answer]

AuxMethodCall(method) ==
    /\ McpAlive
    /\ Quiescent
    /\ method = "setupGmailTrigger" => Len(subscriptions) < MaxSubscriptions
    /\ auxCall' = [IdleAux EXCEPT !.pc = 1, !.method = method]
    /\ registry' = RegistryAfter(registry, method)
    /\ UNCHANGED <<subscriptions, reg, env, proc, pc, exitCode, toolsListed,
                   isReady, listening, lastResponse, shutdownTimers>>
    /\ UNCHANGED <<pmVars, execVars, agentVars, wfVars, ctVars, mcpVars>>

AuxFirstSettles ==
    /\ McpAlive
    /\ auxCall.pc = 1
    /\ \E answer \in AuxFirstAnswers(auxCall.method) \cup {Thrown(m) : m \in SdkErrors} :
          /\ auxCall' = AuxAfterFirst(auxCall, answer)
          /\ subscriptions' = SubscriptionsAfterFirst(subscriptions, auxCall.method, answer)
    /\ UNCHANGED <<registry, reg, env, proc, pc, exitCode, toolsListed,
                   isReady, listening, lastResponse, shutdownTimers>>
    /\ UNCHANGED <<pmVars, execVars, agentVars, wfVars, ctVars, mcpVars>>

AuxWaitSettles ==
    /\ McpAlive
    /\ auxCall.pc = 2
    /\ \E answer \in {Returned("connectedAccount")} \cup {Thrown(m) : m \in SdkErrors} :
          auxCall' = AuxAfterWait(auxCall, answer)
    /\ UNCHANGED <<subscriptions, registry, reg, env, proc, pc, exitCode,
                   toolsListed, isReady, listening, lastResponse, shutdownTimers>>
    /\ UNCHANGED <<pmVars, execVars, agentVars, wfVars, ctVars, mcpVars>>

AuxMethodTaken ==
    /\ McpAlive
    /\ auxCall.pc \in {4, 5}
    /\ auxCall' = IdleAux
    /\ UNCHANGED <<subscriptions, registry, reg, env, proc, pc, exitCode,
                   toolsListed, isReady, listening, lastResponse, shutdownTimers>>
    /\ UNCHANGED <<pmVars, execVars, agentVars, wfVars, ctVars, mcpVars>>

----------------------------------------------------------------------------
(***************************************************************************)
(* The process: startService (part_001:816-831) with                       *)
(* GoogleWorkspaceService (part_001:736-813), or main (index.ts:2832-2887).*)
(* Both await GoogleWorkspaceMCP.initializeCustomTools (index.ts:373-389), *)
(* which awaits one createCustomTool call after the other.                 *)
(***************************************************************************)
IdleReg == [next |-> 0, caller |-> "", outcome |-> NoOutcome]
Running == -1

\* main's validation of the environment (index.ts:2841-2847).
EnvironmentValid(e) == e.composio /\ e.anthropic

\* The process after the initializeCustomTools call of its startup settled.
\* service: initialize sets isReady and start calls app.listen; a rejection
\* is rethrown by initialize, leaves start and startService exits with 1.
\* main: goes on to getGoogleWorkspaceTools; its catch block exits with 1.
AfterStartupTools_ListenAnyway(process, kind) ==
    IF process = "service"
    THEN [pc |-> "listening", exitCode |-> Running, isReady |-> kind = "return",
          listening |-> TRUE, toolsListed |-> FALSE]
    ELSE [pc |-> "listing", exitCode |-> Running, isReady |-> FALSE,
          listening |-> FALSE, toolsListed |-> TRUE]

AfterStartupTools_NeverReady(process, kind) ==
    IF kind = "throw"
    THEN [pc |-> "exited", exitCode |-> 1, isReady |-> FALSE,
          listening |-> FALSE, toolsListed |-> FALSE]
    ELSE IF process = "service"
    THEN [pc |-> "listening", exitCode |-> Running, isReady |-> FALSE,
          listening |-> TRUE, toolsListed |-> FALSE]
    ELSE [pc |-> "listing", exitCode |-> Running, isReady |-> FALSE,
          listening |-> FALSE, toolsListed |-> TRUE]

AfterStartupTools(process, kind) ==
    IF kind = "throw"
    THEN [pc |-> "exited", exitCode |-> 1, isReady |-> FALSE,
          listening |-> FALSE, toolsListed |-> FALSE]
    ELSE IF process = "service"
    THEN [pc |-> "listening", exitCode |-> Running, isReady |-> TRUE,
          listening |-> TRUE, toolsListed |-> FALSE]
    ELSE [pc |-> "listing", exitCode |-> Running, isReady |-> FALSE,
          listening |-> FALSE, toolsListed |-> TRUE]

\* startService: new GoogleWorkspaceService(), service.start(), initialize(),
\* up to the first awaited createCustomTool call.
StartService_ListenFirst ==
    /\ proc = "service"
    /\ pc = "start"
    /\ pc' = "listening"
    /\ listening' = TRUE
    /\ reg' = [IdleReg EXCEPT !.next = 1, !.caller = "startup"]
    /\ UNCHANGED <<auxCall, subscriptions, registry, env, proc, exitCode, toolsListed,
                   isReady, lastResponse, shutdownTimers>>
    /\ UNCHANGED <<pmVars, execVars, agentVars, wfVars, ctVars, mcpVars>>

StartService ==
    /\ proc = "service"
    /\ pc = "start"
    /\ pc' = "registering"
    /\ reg' = [IdleReg EXCEPT !.next = 1, !.caller = "startup"]
    /\ UNCHANGED <<auxCall, subscriptions, registry, env, proc, exitCode, toolsListed,
                   isReady, listening, lastResponse, shutdownTimers>>
    /\ UNCHANGED <<pmVars, execVars, agentVars, wfVars, ctVars, mcpVars>>

\* main: the environment check, then new GoogleWorkspaceMCP and
\* initializeCustomTools up to the first awaited createCustomTool call.
MainStart ==
    /\ proc = "main"
    /\ pc = "start"
    /\ IF EnvironmentValid(env)
       THEN /\ pc' = "registering"
            /\ reg' = [IdleReg EXCEPT !.next = 1, !.caller = "startup"]
                    /\ UNCHANGED exitCode
       ELSE /\ pc' = "exited"
            /\ exitCode' = 1
            /\ UNCHANGED reg
    /\ UNCHANGED <<auxCall, subscriptions, registry, env, proc, toolsListed,
                   isReady, listening, lastResponse, shutdownTimers>>
    /\ UNCHANGED <<pmVars, execVars, agentVars, wfVars, ctVars, mcpVars>>

\* The awaited createCustomTool call resolves: the tool is registered and
\* the next call is made; after the last one initializeCustomTools returns.
RegistrationSucceeds ==
    /\ pc \in {"registering", "listening"}
    /\ reg.next > 0
    /\ registry' = createCustomTool(registry, AllToolSlugs[reg.next], reg.caller)
    /\ IF reg.next < Len(AllToolSlugs)
       THEN /\ reg' = [reg EXCEPT !.next = @ + 1]
            /\ UNCHANGED <<pc, exitCode, isReady, listening, toolsListed>>
       ELSE IF reg.caller = "startup"
       THEN LET after == AfterStartupTools(proc, "return")
            IN  /\ reg' = IdleReg
                /\ pc' = after.pc
                /\ exitCode' = after.exitCode
                /\ isReady' = after.isReady
                /\ listening' = after.listening
                /\ toolsListed' = after.toolsListed
       ELSE /\ reg' = [reg EXCEPT !.next = 0, !.outcome = ReturnedVoid]
            /\ UNCHANGED <<pc, exitCode, isReady, listening, toolsListed>>
    /\ UNCHANGED <<auxCall, subscriptions, env, proc, lastResponse, shutdownTimers>>
    /\ UNCHANGED <<pmVars, execVars, agentVars, wfVars, ctVars, mcpVars>>

\* The awaited createCustomTool call rejects: initializeCustomTools rejects.
RegistrationFails_Continue(msg) ==
    /\ pc \in {"registering", "listening"}
    /\ reg.next > 0
    /\ reg.next < Len(AllToolSlugs)
    /\ reg' = [reg EXCEPT !.next = @ + 1]
    /\ UNCHANGED <<auxCall, subscriptions, registry, env, proc, pc, exitCode,
                   toolsListed, isReady, listening, lastResponse, shutdownTimers>>
    /\ UNCHANGED <<pmVars, execVars, agentVars, wfVars, ctVars, mcpVars>>

RegistrationFails(msg) ==
    /\ pc \in {"registering", "listening"}
    /\ reg.next > 0
    /\ IF reg.caller = "startup"
       THEN LET after == AfterStartupTools(proc, "throw")
            IN  /\ reg' = [reg EXCEPT !.next = 0, !.outcome = Thrown(msg)]
                /\ pc' = after.pc
                /\ exitCode' = after.exitCode
                /\ isReady' = after.isReady
                /\ listening' = after.listening
                /\ toolsListed' = after.toolsListed
       ELSE /\ reg' = [reg EXCEPT !.next = 0, !.outcome = Thrown(msg)]
            /\ UNCHANGED <<pc, exitCode, isReady, listening, toolsListed>>
    /\ UNCHANGED <<auxCall, subscriptions, registry, env, proc, lastResponse,
                   shutdownTimers>>
    /\ UNCHANGED <<pmVars, execVars, agentVars, wfVars, ctVars, mcpVars>>

\* main: getGoogleWorkspaceTools settles; main logs and returns, and the
\* process ends, or the catch block exits with 1.
MainListingSettles ==
    /\ pc = "listing"
    /\ \E kind \in {"return", "throw"} :
          /\ pc' = "exited"
          /\ exitCode' = IF kind = "return" THEN 0 ELSE 1
    /\ UNCHANGED <<auxCall, subscriptions, registry, reg, env, proc, toolsListed,
                   isReady, listening, lastResponse, shutdownTimers>>
    /\ UNCHANGED <<pmVars, execVars, agentVars, wfVars, ctVars, mcpVars>>

\* A holder of service.getMCPServer() (part_001:810-812) calls
\* initializeCustomTools on the same instance again.
InitializeCustomToolsAgain ==
    /\ pc = "listening"
    /\ Quiescent
    /\ reg.next = 0
    /\ reg' = [IdleReg EXCEPT !.next = 1, !.caller = "client"]
    /\ UNCHANGED <<auxCall, subscriptions, registry, env, proc, pc, exitCode,
                   toolsListed, isReady, listening, lastResponse, shutdownTimers>>
    /\ UNCHANGED <<pmVars, execVars, agentVars, wfVars, ctVars, mcpVars>>

InitializeCustomToolsAgainTaken ==
    /\ pc = "listening"
    /\ reg.caller = "client"
    /\ reg.next = 0
    /\ reg' = IdleReg
    /\ UNCHANGED <<auxCall, subscriptions, registry, env, proc, pc, exitCode,
                   toolsListed, isReady, listening, lastResponse, shutdownTimers>>
    /\ UNCHANGED <<pmVars, execVars, agentVars, wfVars, ctVars, mcpVars>>

(***************************************************************************)
(* The routes of setupRoutes (part_001:747-777); the server answers once   *)
(* start has called app.listen (part_001:803).                             *)
(***************************************************************************)
ReportedToolsCount == 84

HealthResponse(ready) ==
    [path |-> "/health", status |-> IF ready THEN "ready" ELSE "initializing",
     initialized |-> ready, tools_count |-> ReportedToolsCount]

StatusResponse(ready) ==
    [path |-> "/status", status |-> "", initialized |-> ready, tools_count |-> 0]

ShutdownResponse ==
    [path |-> "/shutdown", status |-> "Shutting down gracefully...",
     initialized |-> FALSE, tools_count |-> 0]

Serving == pc = "listening" /\ listening

HealthRequest ==
    /\ Serving
    /\ Quiescent
    /\ lastResponse' = HealthResponse(isReady)
    /\ registry' = RegistryAfter(registry, "/health")
    /\ UNCHANGED <<auxCall, subscriptions, reg, env, proc, pc, exitCode,
                   toolsListed, isReady, listening, shutdownTimers>>
    /\ UNCHANGED <<pmVars, execVars, agentVars, wfVars, ctVars, mcpVars>>

StatusRequest ==
    /\ Serving
    /\ Quiescent
    /\ lastResponse' = StatusResponse(isReady)
    /\ registry' = RegistryAfter(registry, "/status")
    /\ UNCHANGED <<auxCall, subscriptions, reg, env, proc, pc, exitCode,
                   toolsListed, isReady, listening, shutdownTimers>>
    /\ UNCHANGED <<pmVars, execVars, agentVars, wfVars, ctVars, mcpVars>>

\* res.json(...), then setTimeout(() => process.exit(0), 1000)
ShutdownRequest_ExitAtOnce ==
    /\ Serving
    /\ Quiescent
    /\ shutdownTimers < MaxShutdownRequests
    /\ pc' = "exited"
    /\ exitCode' = 0
    /\ listening' = FALSE
    /\ shutdownTimers' = shutdownTimers + 1
    /\ UNCHANGED <<auxCall, subscriptions, registry, reg, env, proc,
                   toolsListed, isReady, lastResponse>>
    /\ UNCHANGED <<pmVars, execVars, agentVars, wfVars, ctVars, mcpVars>>

ShutdownRequest ==
    /\ Serving
    /\ Quiescent
    /\ shutdownTimers < MaxShutdownRequests
    /\ lastResponse' = ShutdownResponse
    /\ shutdownTimers' = shutdownTimers + 1
    /\ registry' = RegistryAfter(registry, "/shutdown")
    /\ UNCHANGED <<auxCall, subscriptions, reg, env, proc, pc, exitCode,
                   toolsListed, isReady, listening>>
    /\ UNCHANGED <<pmVars, execVars, agentVars, wfVars, ctVars, mcpVars>>

\* The response has reached the requester.
ResponseDelivered ==
    /\ pc = "listening"
    /\ lastResponse # NoResponse
    /\ lastResponse' = NoResponse
    /\ UNCHANGED <<auxCall, subscriptions, registry, reg, env, proc, pc, exitCode,
                   toolsListed, isReady, listening, shutdownTimers>>
    /\ UNCHANGED <<pmVars, execVars, agentVars, wfVars, ctVars, mcpVars>>

\* A shutdown timer fires, or SIGINT arrives (part_001:822-825): process.exit(0)
\* The calls in flight end with the process.
ProcessExitsZero ==
    /\ pc = "listening"
    /\ pc' = "exited"
    /\ exitCode' = 0
    /\ listening' = FALSE
    /\ mcpCall' = IdleMcp
    /\ auxCall' = IdleAux
    /\ reg' = IdleReg
    /\ shutdownTimers' = 0
    /\ UNCHANGED <<subscriptions, registry, env, proc,
                   toolsListed, isReady, lastResponse>>
    /\ UNCHANGED <<pmVars, execVars, agentVars, wfVars, ctVars>>

ShutdownTimerFires ==
    /\ shutdownTimers > 0
    /\ ProcessExitsZero

Sigint == ProcessExitsZero

(***************************************************************************)
(* The process manager running dist/service.js under the restart policy of *)
(* the ecosystem file (part_000:52-70): autorestart, restart_delay 1000,   *)
(* max_restarts 10, min_uptime '10s'. A restart is unstable when the       *)
(* process ended before min_uptime; after max_restarts consecutive         *)
(* unstable restarts the manager holds the app as errored and restarts it  *)
(* no more.                                                                *)
(***************************************************************************)
max_restarts == 10

\* What the manager does with an exit: the count of consecutive unstable
\* restarts, and whether a restart is scheduled.
PmAfterExit_GiveUp(stable, count) ==
    [status |-> "errored", unstable |-> IF stable THEN 0 ELSE count + 1]

PmAfterExit(stable, count) ==
    LET unstable == IF stable THEN 0 ELSE count + 1
    IN  [status |-> IF unstable >= max_restarts THEN "errored" ELSE "waiting restart",
         unstable |-> unstable]

\* The process has been up for min_uptime.
MinUptimeReached ==
    /\ pmStatus = "online"
    /\ pc \in {"registering", "listening"}
    /\ ~stableUptime
    /\ stableUptime' = TRUE
    /\ UNCHANGED <<pmStatus, unstableRestarts>>
    /\ UNCHANGED <<execVars, agentVars, wfVars, ctVars, mcpVars, svcVars>>

\* The listening service dies: an uncaught error, or the manager ends it for
\* exceeding max_memory_restart.
ProcessCrashes ==
    /\ pmStatus = "online"
    /\ pc = "listening"
    /\ pc' = "exited"
    /\ exitCode' = 1
    /\ listening' = FALSE
    /\ UNCHANGED <<auxCall, subscriptions, registry, reg, env, proc, toolsListed,
                   isReady, lastResponse, shutdownTimers>>
    /\ UNCHANGED <<pmVars, execVars, agentVars, wfVars, ctVars, mcpVars>>

\* The manager sees the exit of the process.
PmHandleExit ==
    /\ pmStatus = "online"
    /\ pc = "exited"
    /\ LET after == PmAfterExit(stableUptime, unstableRestarts)
       IN  /\ pmStatus' = after.status
           /\ unstableRestarts' = after.unstable
    /\ UNCHANGED stableUptime
    /\ UNCHANGED <<execVars, agentVars, wfVars, ctVars, mcpVars, svcVars>>

\* restart_delay has passed: the manager starts a new process, which begins
\* with startService and an empty memory.
PmRestart ==
    /\ pmStatus = "waiting restart"
    /\ pmStatus' = "online"
    /\ stableUptime' = FALSE
    /\ pc' = "start"
    /\ exitCode' = Running
    /\ registry' = <<>>
    /\ reg' = IdleReg
    /\ isReady' = FALSE
    /\ listening' = FALSE
    /\ lastResponse' = NoResponse
    /\ shutdownTimers' = 0
    /\ UNCHANGED <<auxCall, subscriptions, env, proc, toolsListed, unstableRestarts>>
    /\ UNCHANGED <<execVars, agentVars, wfVars, ctVars, mcpVars>>

----------------------------------------------------------------------------
(***************************************************************************)
(* The executors: the execute function of every createCustomTool           *)
(* declaration (index.ts:394-2596, part_001:12-265). An executor builds    *)
(* its result from its input, from literals and, where its body says so,   *)
(* from Date.now() / new Date() and from Math.random(); none reads its     *)
(* second parameter (_connectionConfig) and none throws.                   *)
(***************************************************************************)
MaxClock == 2
MaxRandom == 1
MaxExecutions == 2

ExecInputs == {"input_a", "input_b"}
ExecContexts == {"connection_1", "connection_2"}
RandomDraws == 0..MaxRandom

ExecutorSlugs == Range(AllToolSlugs) \cup Range(CustomToolSlugs)

\* The executors of index.ts whose body reads the clock.
ClockExecutorsMcp ==
    {"GMAIL_WATCH_MAILBOX", "GMAIL_STOP_WATCH",
     "CALENDAR_LIST_EVENTS_FILTERS", "CALENDAR_UPDATE_EVENT",
     "DRIVE_UPLOAD_FILE", "DRIVE_CREATE_FOLDER", "DRIVE_COPY_FILE",
     "DOCS_BATCH_UPDATE_CONTENT", "DOCS_INSERT_IMAGE",
     "DOCS_CREATE_FROM_TEMPLATE", "DOCS_INSERT_TABLE",
     "DOCS_EXPORT_DOCUMENT", "DOCS_INSERT_PAGE_BREAK",
     "DOCS_CREATE_NAMED_RANGE", "DOCS_CREATE_COMMENT",
     "DOCS_REPLY_COMMENT", "DOCS_RESOLVE_COMMENT",
     "SHEETS_CREATE_COMMENT", "SHEETS_REPLY_COMMENT",
     "SHEETS_RESOLVE_COMMENT", "SLIDES_CREATE_COMMENT",
     "SLIDES_REPLY_COMMENT", "SLIDES_RESOLVE_COMMENT"}

\* Executors of part_001: EMAIL_ANALYTICS (30-46), DOCUMENT_INTELLIGENCE
\* (161-172) and WORKSPACE_WORKFLOW (234-251) read Math.random and the clock;
\* MEETING_OPTIMIZER (82-136) reads neither.
RandomExecutors == {"EMAIL_ANALYTICS", "DOCUMENT_INTELLIGENCE", "WORKSPACE_WORKFLOW"}
ClockExecutors == ClockExecutorsMcp \cup RandomExecutors

\* part_001 returns {data, successful: true, error: null}; index.ts returns
\* {data} alone.
FullEnvelopeExecutors == Range(CustomToolSlugs)

Execute_DataAndError(slug, input, ctx, now, rnd) ==
    [data |-> Some([slug |-> slug, input |-> input,
                    clock |-> IF slug \in ClockExecutors THEN Some(now) ELSE None,
                    random |-> IF slug \in RandomExecutors THEN Some(rnd) ELSE None]),
     successful |-> IF slug \in FullEnvelopeExecutors THEN Some(TRUE) ELSE None,
     error |-> Some("mock")]

\* The result of execute(input, ctx) when Date.now() answers now and
\* Math.random() answers rnd: the data hold what the body put into them.
Execute(slug, input, ctx, now, rnd) ==
    [data |-> Some([slug |-> slug, input |-> input,
                    clock |-> IF slug \in ClockExecutors THEN Some(now) ELSE None,
                    random |-> IF slug \in RandomExecutors THEN Some(rnd) ELSE None]),
     successful |-> IF slug \in FullEnvelopeExecutors THEN Some(TRUE) ELSE None,
     error |-> None]

\* composio.tools.execute hands the executor's result to its caller.
SdkOfEnvelope(envelope) ==
    [kind |-> "result", successful |-> envelope.successful = Some(TRUE),
     data |-> envelope.data, error |-> envelope.error]

\* What composio.tools.execute of the client helpers (part_001:425-429) can
\* answer for the tool: the result of its executor when the tool is one the
\* custom-tools module registered on that client, or a failure.
SdkCustomOutcomes(slug, input, ctx, now, rnd) ==
    (IF slug \in Range(CustomToolSlugs)
     THEN {SdkOfEnvelope(Execute(slug, input, ctx, now, rnd))}
     ELSE {})
        \cup {SdkFailure(m) : m \in SdkErrors}
        \cup {SdkThrow(m) : m \in SdkErrors}

\* The executor is invoked on a validated input.
ExecutorRuns(input, ctx, rnd) ==
    /\ pc = "tools"
    /\ Cardinality(executions) < MaxExecutions
    /\ executions' = executions \cup
          {[input |-> input, ctx |-> ctx,
            envelope |-> Some(Execute(tool, input, ctx, clock, rnd)),
            outcome |-> NoOutcome]}
    /\ UNCHANGED <<tool, clock, dispatches>>
    /\ UNCHANGED <<pmVars, agentVars, wfVars, ctVars, mcpVars, svcVars>>

\* executeTool(tool, userId, input) of the client helpers runs to its end.
ExecuteToolRuns(input, ctx, rnd) ==
    /\ pc = "tools"
    /\ Cardinality(executions) < MaxExecutions
    /\ \E sdk \in SdkCustomOutcomes(tool, input, ctx, clock, rnd) :
          executions' = executions \cup
             {[input |-> input, ctx |-> ctx,
               envelope |-> IF SdkFailed(sdk) THEN None
                            ELSE Some(Execute(tool, input, ctx, clock, rnd)),
               outcome |-> executeTool(sdk)]}
    /\ UNCHANGED <<tool, clock, dispatches>>
    /\ UNCHANGED <<pmVars, agentVars, wfVars, ctVars, mcpVars, svcVars>>

\* Time passes.
ClockTick ==
    /\ pc \in {"tools", "dispatch"}
    /\ clock < MaxClock
    /\ clock' = clock + 1
    /\ UNCHANGED <<tool, executions, dispatches>>
    /\ UNCHANGED <<pmVars, agentVars, wfVars, ctVars, mcpVars, svcVars>>

----------------------------------------------------------------------------
(***************************************************************************)
(* The input schema of every tool: the fields of its inputParams           *)
(* z.object({...}) in declaration order, and what its executor does with   *)
(* them. A field is required, optional, or optional with a default: a      *)
(* default of the schema (.default(d), part_001), applied when the input   *)
(* is parsed, a default of the executor (const { f = d } = input, or       *)
(* f || d, index.ts), or a default only its description announces. used    *)
(* tells whether the body of the executor reads the field.                 *)
(***************************************************************************)
Req(n, u) ==
    [name |-> n, required |-> TRUE, declared |-> None, zod |-> None,
     code |-> None, used |-> u]
Opt(n, u) ==
    [name |-> n, required |-> FALSE, declared |-> None, zod |-> None,
     code |-> None, used |-> u]
CodeDef(n, d, u) ==
    [name |-> n, required |-> FALSE, declared |-> Some(d), zod |-> None,
     code |-> Some(d), used |-> u]
ZodDef(n, d, u) ==
    [name |-> n, required |-> FALSE, declared |-> Some(d), zod |-> Some(d),
     code |-> None, used |-> u]
DocDef(n, d, u) ==
    [name |-> n, required |-> FALSE, declared |-> Some(d), zod |-> None,
     code |-> None, used |-> u]

ToolFields(slug) ==
    CASE slug = "GMAIL_GET_MESSAGES_CONTENT_BATCH" ->  \* index.ts:396
            <<Req("message_ids", TRUE), Req("user_google_email", TRUE),
              CodeDef("include_attachments", "false", FALSE)>>
      [] slug = "GMAIL_GET_THREADS_CONTENT_BATCH" ->  \* index.ts:419
            <<Req("thread_ids", TRUE), Req("user_google_email", TRUE),
              CodeDef("max_results_per_thread", "50", FALSE)>>
      [] slug = "GMAIL_DRAFT_MESSAGE" ->  \* index.ts:441
            <<Req("to", TRUE), Req("subject", TRUE), Req("body", FALSE),
              Opt("cc", FALSE), Opt("bcc", FALSE),
              Req("user_google_email", FALSE)>>
      [] slug = "GMAIL_BATCH_MODIFY_LABELS" ->  \* index.ts:467
            <<Req("message_ids", TRUE),
              CodeDef("add_label_ids", "[]", TRUE),
              CodeDef("remove_label_ids", "[]", TRUE),
              Req("user_google_email", FALSE)>>
      [] slug = "GMAIL_CREATE_LABEL" ->  \* index.ts:491
            <<Req("name", TRUE), Req("user_google_email", FALSE),
              CodeDef("label_list_visibility", "labelShow", TRUE),
              CodeDef("message_list_visibility", "show", TRUE),
              Opt("color", FALSE)>>
      [] slug = "GMAIL_SEARCH_MESSAGES_FILTERS" ->  \* index.ts:520
            <<Req("query", TRUE), Req("user_google_email", FALSE),
              CodeDef("max_results", "10", TRUE),
              CodeDef("label_ids", "[]", FALSE),
              CodeDef("include_spam_trash", "false", FALSE),
              Opt("page_token", FALSE)>>
      [] slug = "GMAIL_GET_MESSAGE_RAW" ->  \* index.ts:547
            <<Req("message_id", TRUE), Req("user_google_email", FALSE),
              CodeDef("format", "raw", TRUE)>>
      [] slug = "GMAIL_BATCH_DELETE_MESSAGES" ->  \* index.ts:570
            <<Req("message_ids", TRUE), Req("user_google_email", FALSE)>>
      [] slug = "GMAIL_GET_USER_PROFILE" ->  \* index.ts:591
            <<Req("user_google_email", TRUE)>>
      [] slug = "GMAIL_WATCH_MAILBOX" ->  \* index.ts:612
            <<Req("user_google_email", FALSE), Req("topic_name", TRUE),
              CodeDef("label_ids", "[]", FALSE),
              CodeDef("label_filter_action", "include", FALSE)>>
      [] slug = "GMAIL_GET_ATTACHMENT" ->  \* index.ts:635
            <<Req("message_id", FALSE), Req("attachment_id", TRUE),
              Req("user_google_email", FALSE)>>
      [] slug = "GMAIL_BATCH_ARCHIVE_MESSAGES" ->  \* index.ts:658
            <<Req("message_ids", TRUE), Req("user_google_email", FALSE)>>
      [] slug = "GMAIL_GET_HISTORY" ->  \* index.ts:679
            <<Req("start_history_id", TRUE),
              Req("user_google_email", FALSE),
              CodeDef("max_results", "100", FALSE), Opt("label_id", FALSE),
              CodeDef("history_types", "[]", FALSE)>>
      [] slug = "GMAIL_STOP_WATCH" ->  \* index.ts:703
            <<Req("user_google_email", TRUE)>>
      [] slug = "CALENDAR_LIST_EVENTS_FILTERS" ->  \* index.ts:730
            <<Req("user_google_email", TRUE),
              CodeDef("calendar_id", "primary", FALSE),
              Opt("time_min", FALSE), Opt("time_max", FALSE),
              CodeDef("max_results", "10", FALSE),
              CodeDef("single_events", "true", FALSE),
              CodeDef("order_by", "startTime", FALSE),
              Opt("page_token", FALSE)>>
      [] slug = "CALENDAR_GET_EVENT" ->  \* index.ts:759
            <<Req("event_id", TRUE), Req("user_google_email", TRUE),
              CodeDef("calendar_id", "primary", FALSE)>>
      [] slug = "CALENDAR_UPDATE_EVENT" ->  \* index.ts:786
            <<Req("event_id", TRUE), Req("user_google_email", FALSE),
              CodeDef("calendar_id", "primary", FALSE),
              CodeDef("summary", "", TRUE),
              CodeDef("description", "", TRUE),
              CodeDef("start_time", "", TRUE),
              CodeDef("end_time", "", TRUE), CodeDef("location", "", TRUE),
              CodeDef("attendees", "[]", TRUE)>>
      [] slug = "CALENDAR_DELETE_EVENT" ->  \* index.ts:819
            <<Req("event_id", TRUE), Req("user_google_email", FALSE),
              CodeDef("calendar_id", "primary", TRUE),
              CodeDef("send_updates", "all", TRUE)>>
      [] slug = "CALENDAR_LIST_CALENDARS" ->  \* index.ts:843
            <<Req("user_google_email", TRUE),
              CodeDef("min_access_role", "reader", FALSE),
              CodeDef("show_deleted", "false", FALSE),
              CodeDef("show_hidden", "false", FALSE)>>
      [] slug = "DRIVE_SEARCH_FILES_FILTERS" ->  \* index.ts:876
            <<Req("query", FALSE), Req("user_google_email", FALSE),
              CodeDef("spaces", "drive", FALSE),
              CodeDef("corpus", "user", FALSE),
              CodeDef("order_by", "modifiedTime desc", FALSE),
              CodeDef("page_size", "10", FALSE), Opt("page_token", FALSE),
              CodeDef("include_items_from_all_drives", "false", FALSE)>>
      [] slug = "DRIVE_GET_FILE_CONTENT" ->  \* index.ts:904
            <<Req("file_id", TRUE), Req("user_google_email", FALSE),
              CodeDef("mime_type", "application/octet-stream", TRUE),
              CodeDef("acknowledge_abuse", "false", FALSE)>>
      [] slug = "DRIVE_UPLOAD_FILE" ->  \* index.ts:930
            <<Req("name", TRUE), Req("user_google_email", FALSE),
              Req("content", TRUE),
              CodeDef("mime_type", "text/plain", TRUE),
              Opt("parent_folder_id", FALSE), Opt("description", FALSE)>>
      [] slug = "DRIVE_CREATE_FOLDER" ->  \* index.ts:960
            <<Req("name", TRUE), Req("user_google_email", FALSE),
              Opt("parent_folder_id", FALSE), Opt("description", FALSE)>>
      [] slug = "DRIVE_COPY_FILE" ->  \* index.ts:986
            <<Req("file_id", TRUE), Req("user_google_email", FALSE),
              CodeDef("name", "Copy of file", TRUE),
              Opt("parent_folder_id", FALSE)>>
      [] slug = "DRIVE_BATCH_GET_METADATA" ->  \* index.ts:1011
            <<Req("file_ids", TRUE), Req("user_google_email", TRUE),
              CodeDef("fields", "*", FALSE)>>
      [] slug = "DOCS_GET_CONTENT_STRUCTURE" ->  \* index.ts:1044
            <<Req("document_id", TRUE), Req("user_google_email", FALSE),
              CodeDef("include_suggestions", "false", TRUE)>>
      [] slug = "DOCS_BATCH_UPDATE_CONTENT" ->  \* index.ts:1071
            <<Req("document_id", TRUE), Req("user_google_email", FALSE),
              Req("requests", TRUE)>>
      [] slug = "DOCS_INSERT_IMAGE" ->  \* index.ts:1104
            <<Req("document_id", TRUE), Req("user_google_email", FALSE),
              Req("image_uri", TRUE), Req("insert_location", TRUE),
              Opt("width", FALSE), Opt("height", FALSE)>>
      [] slug = "DOCS_CREATE_FROM_TEMPLATE" ->  \* index.ts:1130
            <<Req("template_id", TRUE), Req("user_google_email", FALSE),
              Req("title", TRUE), Opt("destination_folder_id", FALSE)>>
      [] slug = "DOCS_REPLACE_TEXT" ->  \* index.ts:1155
            <<Req("document_id", TRUE), Req("user_google_email", FALSE),
              Req("find_text", TRUE), Req("replace_text", TRUE),
              CodeDef("match_case", "false", FALSE)>>
      [] slug = "DOCS_GET_SUGGESTIONS" ->  \* index.ts:1180
            <<Req("document_id", TRUE), Req("user_google_email", FALSE),
              CodeDef("include_resolved", "false", FALSE)>>
      [] slug = "DOCS_APPLY_FORMATTING" ->  \* index.ts:1203
            <<Req("document_id", TRUE), Req("user_google_email", FALSE),
              Req("range", TRUE), CodeDef("text_style", "{}", TRUE)>>
      [] slug = "DOCS_INSERT_TABLE" ->  \* index.ts:1235
            <<Req("document_id", TRUE), Req("user_google_email", FALSE),
              Req("insert_location", TRUE), Req("rows", TRUE),
              Req("columns", TRUE), Opt("table_data", FALSE)>>
      [] slug = "DOCS_GET_REVISION_HISTORY" ->  \* index.ts:1262
            <<Req("document_id", TRUE), Req("user_google_email", FALSE),
              CodeDef("page_size", "25", FALSE), Opt("page_token", FALSE)>>
      [] slug = "DOCS_EXPORT_DOCUMENT" ->  \* index.ts:1285
            <<Req("document_id", TRUE), Req("user_google_email", FALSE),
              Req("format", TRUE),
              CodeDef("include_headers_footers", "true", FALSE)>>
      [] slug = "DOCS_INSERT_PAGE_BREAK" ->  \* index.ts:1310
            <<Req("document_id", TRUE), Req("user_google_email", FALSE),
              Req("insert_location", TRUE)>>
      [] slug = "DOCS_BATCH_GET_METADATA" ->  \* index.ts:1332
            <<Req("document_ids", TRUE), Req("user_google_email", TRUE),
              CodeDef("fields", "*", FALSE)>>
      [] slug = "DOCS_CREATE_NAMED_RANGE" ->  \* index.ts:1360
            <<Req("document_id", TRUE), Req("user_google_email", FALSE),
              Req("name", TRUE), Req("range", TRUE)>>
      [] slug = "DOCS_GET_OUTLINE" ->  \* index.ts:1387
            <<Req("document_id", TRUE), Req("user_google_email", FALSE),
              CodeDef("max_heading_level", "6", TRUE)>>
      [] slug = "SHEETS_LIST_SPREADSHEETS" ->  \* index.ts:1414
            <<Req("user_google_email", TRUE),
              CodeDef("max_results", "25", FALSE)>>
      [] slug = "SHEETS_GET_SPREADSHEET_INFO" ->  \* index.ts:1435
            <<Req("user_google_email", TRUE), Req("spreadsheet_id", TRUE)>>
      [] slug = "SHEETS_READ_SHEET_VALUES" ->  \* index.ts:1457
            <<Req("user_google_email", TRUE), Req("spreadsheet_id", TRUE),
              CodeDef("range_name", "A1:Z1000", TRUE)>>
      [] slug = "SHEETS_MODIFY_SHEET_VALUES" ->  \* index.ts:1480
            <<Req("user_google_email", FALSE), Req("spreadsheet_id", TRUE),
              Req("range_name", TRUE), Opt("values", TRUE),
              CodeDef("value_input_option", "USER_ENTERED", FALSE),
              CodeDef("clear_values", "false", TRUE)>>
      [] slug = "SHEETS_CREATE_SPREADSHEET" ->  \* index.ts:1508
            <<Req("user_google_email", TRUE), Req("title", TRUE),
              Opt("sheet_names", TRUE)>>
      [] slug = "SHEETS_CREATE_SHEET" ->  \* index.ts:1532
            <<Req("user_google_email", TRUE), Req("spreadsheet_id", TRUE),
              Req("sheet_name", TRUE)>>
      [] slug = "SLIDES_CREATE_PRESENTATION" ->  \* index.ts:1559
            <<Req("user_google_email", TRUE),
              CodeDef("title", "Untitled Presentation", TRUE)>>
      [] slug = "SLIDES_GET_PRESENTATION" ->  \* index.ts:1582
            <<Req("user_google_email", TRUE), Req("presentation_id", TRUE)>>
      [] slug = "SLIDES_BATCH_UPDATE_PRESENTATION" ->  \* index.ts:1605
            <<Req("user_google_email", TRUE), Req("presentation_id", TRUE),
              Req("requests", TRUE)>>
      [] slug = "SLIDES_GET_PAGE" ->  \* index.ts:1628
            <<Req("user_google_email", TRUE), Req("presentation_id", TRUE),
              Req("page_object_id", TRUE)>>
      [] slug = "SLIDES_GET_PAGE_THUMBNAIL" ->  \* index.ts:1652
            <<Req("user_google_email", TRUE), Req("presentation_id", TRUE),
              Req("page_object_id", TRUE),
              CodeDef("thumbnail_size", "MEDIUM", TRUE)>>
      [] slug = "FORMS_CREATE_FORM" ->  \* index.ts:1681
            <<Req("user_google_email", TRUE), Req("title", TRUE),
              Opt("description", TRUE), Opt("document_title", TRUE)>>
      [] slug = "FORMS_GET_FORM" ->  \* index.ts:1708
            <<Req("user_google_email", TRUE), Req("form_id", TRUE)>>
      [] slug = "FORMS_SET_PUBLISH_SETTINGS" ->  \* index.ts:1734
            <<Req("user_google_email", TRUE), Req("form_id", TRUE),
              CodeDef("publish_as_template", "false", TRUE),
              CodeDef("require_authentication", "false", TRUE)>>
      [] slug = "FORMS_GET_FORM_RESPONSE" ->  \* index.ts:1758
            <<Req("user_google_email", TRUE), Req("form_id", TRUE),
              Req("response_id", TRUE)>>
      [] slug = "FORMS_LIST_FORM_RESPONSES" ->  \* index.ts:1783
            <<Req("user_google_email", TRUE), Req("form_id", TRUE),
              CodeDef("page_size", "10", FALSE), Opt("page_token", TRUE)>>
      [] slug = "CHAT_LIST_SPACES" ->  \* index.ts:1812
            <<Req("user_google_email", TRUE),
              CodeDef("page_size", "100", FALSE),
              CodeDef("space_type", "all", TRUE)>>
      [] slug = "CHAT_GET_MESSAGES" ->  \* index.ts:1835
            <<Req("user_google_email", TRUE), Req("space_id", TRUE),
              CodeDef("page_size", "50", FALSE),
              CodeDef("order_by", "createTime desc", FALSE)>>
      [] slug = "CHAT_SEND_MESSAGE" ->  \* index.ts:1860
            <<Req("user_google_email", TRUE), Req("space_id", TRUE),
              Req("message_text", TRUE), Opt("thread_key", TRUE)>>
      [] slug = "CHAT_SEARCH_MESSAGES" ->  \* index.ts:1886
            <<Req("user_google_email", TRUE), Req("query", TRUE),
              Opt("space_id", TRUE), CodeDef("page_size", "25", FALSE)>>
      [] slug = "SEARCH_CUSTOM" ->  \* index.ts:1915
            <<Req("user_google_email", TRUE), Req("q", TRUE),
              CodeDef("num", "10", TRUE), CodeDef("start", "1", TRUE),
              CodeDef("safe", "off", FALSE), Opt("search_type", FALSE),
              Opt("site_search", FALSE), Opt("site_search_filter", FALSE),
              Opt("date_restrict", FALSE), Opt("file_type", FALSE),
              Opt("language", FALSE), Opt("country", FALSE)>>
      [] slug = "SEARCH_GET_SEARCH_ENGINE_INFO" ->  \* index.ts:1949
            <<Req("user_google_email", TRUE)>>
      [] slug = "SEARCH_CUSTOM_SITERESTRICT" ->  \* index.ts:1970
            <<Req("user_google_email", TRUE), Req("q", TRUE),
              Req("sites", TRUE), CodeDef("num", "10", FALSE),
              CodeDef("start", "1", FALSE), CodeDef("safe", "off", FALSE)>>
      [] slug = "TASKS_LIST_TASK_LISTS" ->  \* index.ts:2002
            <<Req("user_google_email", TRUE),
              DocDef("max_results", "1000", FALSE), Opt("page_token", TRUE)>>
      [] slug = "TASKS_GET_TASK_LIST" ->  \* index.ts:2025
            <<Req("user_google_email", TRUE), Req("task_list_id", TRUE)>>
      [] slug = "TASKS_CREATE_TASK_LIST" ->  \* index.ts:2048
            <<Req("user_google_email", TRUE), Req("title", TRUE)>>
      [] slug = "TASKS_UPDATE_TASK_LIST" ->  \* index.ts:2071
            <<Req("user_google_email", TRUE), Req("task_list_id", TRUE),
              Req("title", TRUE)>>
      [] slug = "TASKS_DELETE_TASK_LIST" ->  \* index.ts:2094
            <<Req("user_google_email", TRUE), Req("task_list_id", TRUE)>>
      [] slug = "TASKS_LIST_TASKS" ->  \* index.ts:2115
            <<Req("user_google_email", TRUE), Req("task_list_id", TRUE),
              CodeDef("max_results", "20", FALSE), Opt("page_token", TRUE),
              CodeDef("show_completed", "true", FALSE),
              CodeDef("show_deleted", "false", FALSE),
              CodeDef("show_hidden", "false", FALSE),
              CodeDef("show_assigned", "false", FALSE),
              Opt("completed_max", FALSE), Opt("completed_min", FALSE),
              Opt("due_max", FALSE), Opt("due_min", FALSE),
              Opt("updated_min", FALSE)>>
      [] slug = "TASKS_GET_TASK" ->  \* index.ts:2149
            <<Req("user_google_email", TRUE), Req("task_list_id", TRUE),
              Req("task_id", TRUE)>>
      [] slug = "TASKS_CREATE_TASK" ->  \* index.ts:2177
            <<Req("user_google_email", TRUE), Req("task_list_id", TRUE),
              Req("title", TRUE), Opt("notes", TRUE), Opt("due", TRUE),
              Opt("parent", TRUE), Opt("previous", FALSE)>>
      [] slug = "TASKS_UPDATE_TASK" ->  \* index.ts:2208
            <<Req("user_google_email", TRUE), Req("task_list_id", TRUE),
              Req("task_id", TRUE), Opt("title", TRUE), Opt("notes", TRUE),
              Opt("status", TRUE), Opt("due", TRUE)>>
      [] slug = "TASKS_DELETE_TASK" ->  \* index.ts:2239
            <<Req("user_google_email", TRUE), Req("task_list_id", TRUE),
              Req("task_id", TRUE)>>
      [] slug = "TASKS_MOVE_TASK" ->  \* index.ts:2262
            <<Req("user_google_email", TRUE), Req("task_list_id", TRUE),
              Req("task_id", TRUE), Opt("parent", TRUE),
              Opt("previous", TRUE)>>
      [] slug = "TASKS_CLEAR_COMPLETED_TASKS" ->  \* index.ts:2289
            <<Req("user_google_email", TRUE), Req("task_list_id", TRUE)>>
      [] slug = "DOCS_READ_COMMENTS" ->  \* index.ts:2317
            <<Req("user_google_email", TRUE), Req("document_id", TRUE)>>
      [] slug = "DOCS_CREATE_COMMENT" ->  \* index.ts:2338
            <<Req("user_google_email", TRUE), Req("document_id", TRUE),
              Req("comment_content", TRUE)>>
      [] slug = "DOCS_REPLY_COMMENT" ->  \* index.ts:2361
            <<Req("user_google_email", TRUE), Req("document_id", TRUE),
              Req("comment_id", TRUE), Req("reply_content", TRUE)>>
      [] slug = "DOCS_RESOLVE_COMMENT" ->  \* index.ts:2386
            <<Req("user_google_email", TRUE), Req("document_id", TRUE),
              Req("comment_id", TRUE)>>
      [] slug = "SHEETS_READ_COMMENTS" ->  \* index.ts:2410
            <<Req("user_google_email", TRUE), Req("spreadsheet_id", TRUE)>>
      [] slug = "SHEETS_CREATE_COMMENT" ->  \* index.ts:2431
            <<Req("user_google_email", TRUE), Req("spreadsheet_id", TRUE),
              Req("comment_content", TRUE)>>
      [] slug = "SHEETS_REPLY_COMMENT" ->  \* index.ts:2454
            <<Req("user_google_email", TRUE), Req("spreadsheet_id", TRUE),
              Req("comment_id", TRUE), Req("reply_content", TRUE)>>
      [] slug = "SHEETS_RESOLVE_COMMENT" ->  \* index.ts:2479
            <<Req("user_google_email", TRUE), Req("spreadsheet_id", TRUE),
              Req("comment_id", TRUE)>>
      [] slug = "SLIDES_READ_COMMENTS" ->  \* index.ts:2503
            <<Req("user_google_email", TRUE), Req("presentation_id", TRUE)>>
      [] slug = "SLIDES_CREATE_COMMENT" ->  \* index.ts:2524
            <<Req("user_google_email", TRUE), Req("presentation_id", TRUE),
              Req("comment_content", TRUE)>>
      [] slug = "SLIDES_REPLY_COMMENT" ->  \* index.ts:2547
            <<Req("user_google_email", TRUE), Req("presentation_id", TRUE),
              Req("comment_id", TRUE), Req("reply_content", TRUE)>>
      [] slug = "SLIDES_RESOLVE_COMMENT" ->  \* index.ts:2572
            <<Req("user_google_email", TRUE), Req("presentation_id", TRUE),
              Req("comment_id", TRUE)>>
      [] slug = "EMAIL_ANALYTICS" ->  \* part_001:13
            <<ZodDef("timeframe", "week", TRUE),
              ZodDef("analysisType", "volume", TRUE),
              ZodDef("includeThreads", "true", FALSE)>>
      [] slug = "MEETING_OPTIMIZER" ->  \* part_001:63
            <<Req("attendees", TRUE), ZodDef("duration", "60", TRUE),
              Req("dateRange", TRUE), Opt("preferences", FALSE)>>
      [] slug = "DOCUMENT_INTELLIGENCE" ->  \* part_001:143
            <<Req("fileId", TRUE), ZodDef("analysisDepth", "basic", TRUE),
              ZodDef("extractKeywords", "true", TRUE),
              ZodDef("summarize", "false", TRUE)>>
      [] slug = "WORKSPACE_WORKFLOW" ->  \* part_001:207
            <<Req("workflowType", TRUE), Req("trigger", TRUE),
              Req("actions", TRUE)>>

\* The names of the declared fields, and the declaration of each name.
FieldNames(fields) == {fields[i].name : i \in 1..Len(fields)}
FieldMap(fields) ==
    [n \in FieldNames(fields) |->
        fields[CHOOSE i \in 1..Len(fields) : fields[i].name = n]]

\* A raw input gives each field of the schema a value or omits it.
MaxDispatches == 2
GivenValue == "given"
Undefined == "undefined"

\* The inputs with every required field given and the optional fields all
\* omitted or all given, and those that differ from one of them in one field:
\* omitted, given, or given as the declared default.
BaseInputs(fields) ==
    LET decl == FieldMap(fields)
    IN  {[n \in FieldNames(fields) |->
             IF decl[n].required \/ allGiven THEN Some(GivenValue) ELSE None] :
           allGiven \in BOOLEAN}
FieldValues(field) ==
    {None, Some(GivenValue)}
        \cup (IF IsSome(field.declared) THEN {field.declared} ELSE {})
RawInputs(fields) ==
    UNION {{[base EXCEPT ![fields[i].name] = x] : x \in FieldValues(fields[i])} :
              base \in BaseInputs(fields), i \in 1..Len(fields)}

\* The names of the required fields the input omits, in declaration order.
MissingFields(fields, raw) ==
    LET Missing(f) == f.required /\ raw[f.name] = None
        missing == SelectSeq(fields, Missing)
    IN  [i \in 1..Len(missing) |-> missing[i].name]

\* The message of the validation error: one "Required" issue per field.
RECURSIVE ValidationMessage(_)
ValidationMessage(missing) ==
    IF missing = <<>> THEN ""
    ELSE "Required: " \o Head(missing) \o "; " \o ValidationMessage(Tail(missing))

\* inputParams.safeParse(arguments): an input that omits a required field
\* is refused; otherwise the defaults of the schema fill the omitted fields.
ZodParse_AcceptAll(fields, raw) ==
    LET decl == FieldMap(fields)
    IN  [success |-> TRUE,
         data |-> [n \in FieldNames(fields) |->
                      IF raw[n] = None THEN decl[n].zod ELSE raw[n]],
         error |-> ""]

ZodParse(fields, raw) ==
    LET decl == FieldMap(fields)
        missing == MissingFields(fields, raw)
    IN  [success |-> missing = <<>>,
         data |-> [n \in FieldNames(fields) |->
                      IF raw[n] = None THEN decl[n].zod ELSE raw[n]],
         error |-> ValidationMessage(missing)]

\* const { a, b = d, ... } = input, and f || d in the body: what the body of
\* the executor works with, for the fields it reads.
EffectiveInput_NoDefaults(fields, parsed) ==
    LET decl == FieldMap(fields)
    IN  [n \in {m \in FieldNames(fields) : decl[m].used} |->
            IF IsSome(parsed[n]) THEN Get(parsed[n]) ELSE Undefined]

EffectiveInput(fields, parsed) ==
    LET decl == FieldMap(fields)
    IN  [n \in {m \in FieldNames(fields) : decl[m].used} |->
            IF IsSome(parsed[n]) THEN Get(parsed[n])
            ELSE IF IsSome(decl[n].code) THEN Get(decl[n].code)
            ELSE Undefined]

\* The executor run on a parsed input.
RunExecutor(slug, fields, parsed, ctx, now, rnd) ==
    Execute(slug, EffectiveInput(fields, parsed), ctx, now, rnd)

\* composio.tools.execute(slug, {userId, arguments}) on a custom tool: the
\* arguments are parsed with the schema of the tool; a refused input is
\* reported, as a thrown error or as a result with successful = false, and
\* the executor does not run; an accepted one is handed to the executor.
\* A tool of the custom-tools module is reached through executeTool.
DispatchOutcomes(slug, fields, raw, ctx, now, rnd) ==
    LET parsed == ZodParse(fields, raw)
        envelope == RunExecutor(slug, fields, parsed.data, ctx, now, rnd)
        viaExecuteTool == slug \in Range(CustomToolSlugs)
    IN  IF parsed.success
        THEN {[raw |-> raw,
               at |-> IF slug \in ClockExecutors THEN Some(now) ELSE None,
               random |-> IF slug \in RandomExecutors THEN Some(rnd) ELSE None,
               invoked |-> TRUE, envelope |-> Some(envelope), failure |-> None,
               outcome |-> IF viaExecuteTool
                           THEN executeTool(SdkOfEnvelope(envelope))
                           ELSE NoOutcome]}
        ELSE {[raw |-> raw, at |-> None, random |-> None,
               invoked |-> FALSE, envelope |-> None, failure |-> sdk.error,
               outcome |-> IF viaExecuteTool THEN executeTool(sdk) ELSE NoOutcome] :
                 sdk \in {SdkFailure(parsed.error), SdkThrow(parsed.error)}}

Dispatch ==
    /\ pc = "dispatch"
    /\ Cardinality(dispatches) < MaxDispatches
    /\ LET fields == ToolFields(tool)
       IN  \E raw \in RawInputs(fields), ctx \in ExecContexts, rnd \in RandomDraws :
              \E d \in DispatchOutcomes(tool, fields, raw, ctx, clock, rnd) :
                 dispatches' = dispatches \cup {d}
    /\ UNCHANGED <<tool, clock, executions>>
    /\ UNCHANGED <<pmVars, agentVars, wfVars, ctVars, mcpVars, svcVars>>

----------------------------------------------------------------------------
\* No API key, tool or subscription yet; no client call in flight.
InitClient ==
    /\ connectedServices = {}
    /\ agentCall = IdleCall
    /\ initCall = IdleInit
    /\ summaryCall = IdleSummary
    /\ wfPc = "idle"
    /\ wfMeeting = NoMeeting
    /\ wfEvent = None
    /\ emailPromises = <<>>
    /\ completionOrder = <<>>
    /\ wfOutcome = NoWfOutcome
    /\ mcpCall = IdleMcp
    /\ ctPc = "idle"
    /\ ctPromises = <<>>
    /\ ctOrder = <<>>
    /\ ctOutcome = NoCtOutcome
    /\ auxCall = IdleAux
    /\ subscriptions = <<>>
    /\ registry = <<>>
    /\ reg = IdleReg
    /\ exitCode = Running
    /\ toolsListed = FALSE
    /\ isReady = FALSE
    /\ listening = FALSE
    /\ lastResponse = NoResponse
    /\ shutdownTimers = 0

\* No executor is under examination.
InitNoExecutor ==
    /\ tool = ""
    /\ clock = 0
    /\ executions = {}
    /\ dispatches = {}

\* The process is run directly (node dist/service.js, node dist/index.js):
\* no process manager.
InitNoManager ==
    /\ pmStatus = "none"
    /\ unstableRestarts = 0
    /\ stableUptime = FALSE

\* The agent, the client helpers and a GoogleWorkspaceMCP object used as a
\* library: no entry point runs.
InitAgent ==
    /\ InitClient
    /\ InitNoExecutor
    /\ InitNoManager
    /\ env = [composio |-> TRUE, anthropic |-> TRUE]
    /\ proc = "library"
    /\ pc = "library"

ServiceLists == {DefaultServices} \cup SeqUpTo(Services, 1)
ToolCounts == {0, 2}

NextAgent ==
    \/ \E services \in ServiceLists : InitializeCall(services)
    \/ \E n \in ToolCounts : InitializeToolsAnswer(n)
    \/ \E m \in SdkErrors : InitializeToolsThrow(m)
    \/ InitializeTaken
    \/ \E method \in AgentMethods, arg \in Addresses : AgentMethodCall(method, arg)
    \/ AgentMethodSettle
    \/ AgentMethodTaken
    \/ \E meeting \in Meetings : ScheduleMeetingCall(meeting)
    \/ ScheduleMeetingEventSettles
    \/ \E i \in 1..MaxAttendees : ScheduleMeetingEmailSettles(i)
    \/ ScheduleMeetingTaken
    \/ \E date \in Dates : GenerateDailySummaryCall(date)
    \/ SummaryFetchSettles
    \/ SummaryTaken
    \/ InitializeCustomToolsCall
    \/ \E i \in 1..Len(CustomToolSlugs) : CreateCustomToolSettles(i)
    \/ InitializeCustomToolsTaken
    \/ \E method \in McpMethods, arg \in Addresses : McpMethodCall(method, arg)
    \/ McpToolsGetSettles
    \/ McpLlmSettles
    \/ McpDispatchSettles
    \/ McpMethodTaken

SpecAgent == InitAgent /\ [][NextAgent]_vars

----------------------------------------------------------------------------
\* The process started through startService or main, with the calls a holder
\* of the GoogleWorkspaceMCP object makes on it.
Init ==
    /\ InitClient
    /\ InitNoExecutor
    /\ InitNoManager
    /\ \/ proc = "main" /\ env \in [composio : BOOLEAN, anthropic : BOOLEAN]
       \/ proc = "service" /\ env = [composio |-> TRUE, anthropic |-> TRUE]
    /\ pc = "start"

Next ==
    \/ StartService
    \/ MainStart
    \/ RegistrationSucceeds
    \/ \E m \in SdkErrors : RegistrationFails(m)
    \/ MainListingSettles
    \/ InitializeCustomToolsAgain
    \/ InitializeCustomToolsAgainTaken
    \/ HealthRequest
    \/ StatusRequest
    \/ ShutdownRequest
    \/ ResponseDelivered
    \/ ShutdownTimerFires
    \/ Sigint
    \/ \E method \in McpMethods, arg \in Addresses : McpMethodCall(method, arg)
    \/ McpToolsGetSettles
    \/ McpLlmSettles
    \/ McpDispatchSettles
    \/ McpMethodTaken
    \/ \E method \in AuxMethods : AuxMethodCall(method)
    \/ AuxFirstSettles
    \/ AuxWaitSettles
    \/ AuxMethodTaken

Spec == Init /\ [][Next]_vars

\* The service with its timers: a timer that setTimeout has scheduled fires
\* while the process runs (part_001:775).
SpecTimers == Spec /\ WF_vars(ShutdownTimerFires)

\* The service run by the process manager (pm2 start ecosystem.config.cjs):
\* startup, crashes and restarts. The manager handles every exit and starts
\* every restart it has scheduled.
InitPm ==
    /\ InitClient
    /\ InitNoExecutor
    /\ proc = "service"
    /\ env = [composio |-> TRUE, anthropic |-> TRUE]
    /\ pc = "start"
    /\ pmStatus = "online"
    /\ unstableRestarts = 0
    /\ stableUptime = FALSE

NextPm ==
    \/ StartService
    \/ RegistrationSucceeds
    \/ \E m \in SdkErrors : RegistrationFails(m)
    \/ MinUptimeReached
    \/ ProcessCrashes
    \/ PmHandleExit
    \/ PmRestart

SpecPm ==
    InitPm /\ [][NextPm]_vars /\ WF_vars(PmHandleExit) /\ WF_vars(PmRestart)

----------------------------------------------------------------------------
\* The executor of one tool, run any number of times as time passes.
InitExec ==
    /\ InitClient
    /\ InitNoManager
    /\ env = [composio |-> TRUE, anthropic |-> TRUE]
    /\ proc = "tools"
    /\ pc = "tools"
    /\ tool \in ExecutorSlugs
    /\ clock = 0
    /\ executions = {}
    /\ dispatches = {}

NextExec ==
    \/ \E input \in ExecInputs, ctx \in ExecContexts, rnd \in RandomDraws :
          ExecutorRuns(input, ctx, rnd)
    \/ \E input \in ExecInputs, ctx \in ExecContexts, rnd \in RandomDraws :
          ExecuteToolRuns(input, ctx, rnd)
    \/ ClockTick

SpecExec == InitExec /\ [][NextExec]_vars

----------------------------------------------------------------------------
\* One tool, dispatched on raw inputs.
InitInput ==
    /\ InitClient
    /\ InitNoManager
    /\ env = [composio |-> TRUE, anthropic |-> TRUE]
    /\ proc = "dispatch"
    /\ pc = "dispatch"
    /\ tool \in ExecutorSlugs
    /\ clock = 0
    /\ executions = {}
    /\ dispatches = {}

NextInput ==
    \/ Dispatch
    \/ ClockTick

SpecInput == InitInput /\ [][NextInput]_vars

----------------------------------------------------------------------------
(***************************************************************************)
(* Properties of the agent, the batches and the orchestration methods,     *)
(* checked under SpecAgent.                                                *)
(***************************************************************************)

C2_BatchDegradesPerItem ==
    (/\ wfPc \in {"returned", "thrown"}
     /\ Len(emailPromises) >= 2
     /\ \A i \in 1..Len(emailPromises) : emailPromises[i].state # "pending"
     /\ Cardinality({i \in 1..Len(emailPromises) :
                        emailPromises[i].state = "rejected"}) = 1)
        => /\ wfOutcome.kind = "return"
           /\ Len(wfOutcome.emailsSent) = Len(wfMeeting.attendees)

\* C3: whatever the order in which the concurrently started calls complete,
\* a returned batch has at index i the result of the i-th request:
\* emailsSent[i] is the result of the sendEmail call for attendees[i], and the
\* tools of initializeCustomTools are in the order of the array literal.
C3_ResultsInInputOrder ==
    /\ wfPc = "returned"
          => /\ Len(wfOutcome.emailsSent) = Len(wfMeeting.attendees)
             /\ \A i \in 1..Len(wfMeeting.attendees) :
                   /\ wfOutcome.emailsSent[i] = Get(emailPromises[i].value)
                   /\ wfOutcome.emailsSent[i].arg = wfMeeting.attendees[i]
    /\ ctPc = "returned"
          => /\ Len(ctOutcome.tools) = Len(CustomToolSlugs)
             /\ \A i \in 1..Len(CustomToolSlugs) :
                   ctOutcome.tools[i].slug = CustomToolSlugs[i]

\* The workflow returned although the invitation to a later attendee
\* completed first, the first two attendees being different people.
C3_Witness ==
    /\ wfPc = "returned"
    /\ Len(completionOrder) >= 2
    /\ completionOrder[1] # 1
    /\ wfMeeting.attendees[1] # wfMeeting.attendees[2]

\* C4: sendEmail, searchGmailMessages and createCalendarEvent perform
\* tools.get, messages.create, handleToolCalls and the return in this order;
\* a step starts only when the previous one has completed with a value, and
\* after a failed step no later step is performed: the method throws.
C4_OrchestrationOrder ==
    /\ mcpCall.pc # 0
          => /\ Len(mcpCall.trace) \in 1..Len(McpSteps)
             /\ mcpCall.trace = SubSeq(McpSteps, 1, Len(mcpCall.trace))
             /\ (mcpCall.tools = <<>>) = (Len(mcpCall.trace) < 2)
             /\ IsSome(mcpCall.msg) = (Len(mcpCall.trace) >= 3)
             /\ IsSome(mcpCall.dispatch) => Len(mcpCall.trace) >= 3
    /\ mcpCall.pc \in 1..3 => Len(mcpCall.trace) = mcpCall.pc
    /\ mcpCall.pc = 4
          => /\ mcpCall.trace = McpSteps
             /\ mcpCall.outcome = Get(mcpCall.dispatch)
             /\ mcpCall.outcome.kind = "return"
    /\ mcpCall.pc = 5
          => /\ Len(mcpCall.trace) < Len(McpSteps)
             /\ mcpCall.outcome.kind = "throw"

\* messages.create failed after tools.get had succeeded: nothing dispatched.
C4_Witness ==
    /\ mcpCall.pc = 5
    /\ Len(mcpCall.trace) = 2
    /\ mcpCall.trace[2] = "messages.create"
    /\ mcpCall.dispatch = None

----------------------------------------------------------------------------
(***************************************************************************)
(* Properties of the process and its registry, checked under Spec.         *)
(***************************************************************************)

\* Every registration of the startup run of initializeCustomTools succeeded.
InitializationCompleted == Len(registry) >= Len(AllToolSlugs)

\* What /health and /status say agrees with isReady.
ResponsesReflectReadiness ==
    /\ lastResponse.path = "/health"
          => lastResponse.status = (IF isReady THEN "ready" ELSE "initializing")
    /\ lastResponse.path = "/status" => lastResponse.initialized = isReady

\* C5: the service is 'initializing' from construction until every
\* registration of initializeCustomTools has succeeded and 'ready' from then
\* on: /health says 'ready' (and /status initialized) exactly when the
\* initialization has completed, and a ready service never reverts.
C5_Readiness ==
    /\ [](proc = "service" => (isReady <=> InitializationCompleted))
    /\ []ResponsesReflectReadiness
    /\ [][isReady => isReady']_vars

\* The ready service has answered /health with status 'ready'.
C5_Witness ==
    /\ proc = "service"
    /\ isReady
    /\ InitializationCompleted
    /\ lastResponse.path = "/health"
    /\ lastResponse.status = "ready"

\* C6: when a createCustomTool call of the startup fails, the service is not
\* ready, does not listen and the process has exited with code 1; main has
\* exited with code 1 without listing a tool.
C6_RegistrationErrorAbortsStartup ==
    (reg.caller = "startup" /\ reg.outcome.kind = "throw")
        => /\ pc = "exited"
           /\ exitCode = 1
           /\ ~isReady
           /\ ~listening
           /\ ~toolsListed
           /\ lastResponse = NoResponse

\* The startup of the service failed after some registrations had succeeded.
C6_Witness ==
    /\ proc = "service"
    /\ reg.caller = "startup"
    /\ reg.outcome.kind = "throw"
    /\ Len(registry) > 0
    /\ exitCode = 1

\* C7, as stated: registering a slug that is registered fails and leaves the
\* first registration in place: every registered tool is the one the startup
\* stored, and a second initializeCustomTools run fails at its first
\* registration.
C7_DuplicateRegistrationFails ==
    /\ \A i \in 1..Len(registry) : registry[i].by = "startup"
    /\ reg.caller = "client" => reg.next <= 1 /\ reg.outcome.kind # "return"

\* C8: once initializeCustomTools has completed, only a step of an
\* initializeCustomTools run changes the registered tools: the HTTP handlers,
\* getGoogleWorkspaceTools, sendEmail, searchGmailMessages,
\* createCalendarEvent, setupGmailTrigger and initializeAuthentication add,
\* replace and remove nothing.
C8_RegistryReadOnlyAfterInit ==
    [][(InitializationCompleted /\ reg' = reg) => registry' = registry]_vars

\* sendEmail has run to its end on a GoogleWorkspaceMCP whose tools are
\* initialized, and every registered tool is the one the startup stored.
C8_Witness ==
    /\ InitializationCompleted
    /\ mcpCall.pc = 4
    /\ mcpCall.method = "sendEmail"
    /\ \A i \in 1..Len(registry) : registry[i].by = "startup"

----------------------------------------------------------------------------
(***************************************************************************)
(* Properties of the executors, checked under SpecExec.                    *)
(***************************************************************************)

\* C9: every result of an executor and every result of executeTool has
\* exactly one of data and error: an executor's result and a returned
\* executeTool call carry data and no error, a failed executeTool call
\* carries its error and no data; never both, never neither.
C9_EnvelopeInvariant ==
    \A e \in executions :
        /\ IsSome(e.envelope)
              => /\ IsSome(Get(e.envelope).data) # IsSome(Get(e.envelope).error)
                 /\ IsSome(Get(e.envelope).data)
                 /\ Get(e.envelope).successful \in {None, Some(TRUE)}
        /\ e.outcome.kind # "none"
              => /\ IsSome(e.outcome.value) # IsSome(e.outcome.error)
                 /\ (e.outcome.kind = "return") = IsSome(e.outcome.value)
                 /\ (e.outcome.kind = "return") = IsSome(e.envelope)
                 /\ IsSome(e.envelope)
                       => e.outcome.value = Get(e.envelope).data

\* One executeTool call has returned the data of an executor of part_001
\* and another one has failed.
C9_Witness ==
    /\ \E e \in executions : IsSome(e.envelope) /\ e.outcome.kind = "return"
    /\ \E e \in executions : e.outcome.kind = "throw"

\* C10, as stated: every executor is a pure function of its input and its
\* execution context: two executions of a tool with equal input and equal
\* context have equal results.
C10_ExecutorsPure ==
    \A e1, e2 \in executions :
        (/\ IsSome(e1.envelope)
         /\ IsSome(e2.envelope)
         /\ e1.input = e2.input
         /\ e1.ctx = e2.ctx)
            => e1.envelope = e2.envelope

----------------------------------------------------------------------------
(***************************************************************************)
(* Properties of the dispatch of raw inputs, checked under SpecInput.      *)
(***************************************************************************)

\* d2 is d1 with the omitted field n given as its declared default, both run
\* by the executor under the same clock reading and the same random draws.
SameButDefault(d1, d2, field) ==
    /\ IsSome(field.declared)
    /\ d1.invoked
    /\ d2.invoked
    /\ d1.raw[field.name] = None
    /\ d2.raw = [d1.raw EXCEPT ![field.name] = field.declared]
    /\ d1.at = d2.at
    /\ d1.random = d2.random

----------------------------------------------------------------------------
(***************************************************************************)
(* Properties of the registered tools and of the order of registration,    *)
(* checked under Spec.                                                     *)
(***************************************************************************)

\* The slugs the registry holds.
RegisteredSlugs == {registry[i].slug : i \in 1..Len(registry)}

\* The method has made all its createCustomTool calls and logged its count.
GroupCompleted(group) == Range(group.slugs) \subseteq RegisteredSlugs

\* The number of tools the method has registered.
RegisteredOf(group) == Cardinality(Range(group.slugs) \cap RegisteredSlugs)

\* C13: once initializeCustomTools has completed, the number of registered
\* custom tools is 84, the tools_count that /health reports.
C13_RegisteredCountIsReported ==
    InitializationCompleted
        => /\ Cardinality(RegisteredSlugs) = ReportedToolsCount
           /\ lastResponse.path = "/health"
                 => lastResponse.tools_count = Cardinality(RegisteredSlugs)

\* C14: every create...CustomTools method that has completed has registered
\* exactly the number of tools it logs, which is the number documented for
\* its service.
C14_PerServiceCounts ==
    \A g \in 1..Len(ToolGroups) :
        GroupCompleted(ToolGroups[g])
            => /\ RegisteredOf(ToolGroups[g]) = ToolGroups[g].logged
               /\ RegisteredOf(ToolGroups[g]) = ToolGroups[g].documented

----------------------------------------------------------------------------
(***************************************************************************)
(* Properties of the agent's connection guard, checked under SpecAgent.    *)
(***************************************************************************)

\* No call of executeTool is in flight or was made for a method whose service
\* is not connected; a method called without its service has thrown the
\* not-connected error without calling executeTool.
ExecutesOnlyConnected ==
    /\ agentCall.pc = "pending"
          => RequiredService(agentCall.method) \in connectedServices
    /\ agentCall.pc = "settled"
          => IF RequiredService(agentCall.method) \in connectedServices
             THEN IsSome(agentCall.sdk)
             ELSE /\ agentCall.sdk = None
                  /\ agentCall.outcome = Thrown(NotConnectedMessage(agentCall.method))
    /\ wfPc = "event" => "googlecalendar" \in connectedServices
    /\ \A i \in 1..Len(emailPromises) :
          emailPromises[i].state = "pending" => "gmail" \in connectedServices

\* A call of a method whose service is not connected settles at once and
\* changes nothing but the call itself.
RefusedCallChangesNothing ==
    (/\ agentCall.pc = "idle"
     /\ agentCall'.pc # "idle"
     /\ RequiredService(agentCall'.method) \notin connectedServices)
        => /\ agentCall'.pc = "settled"
           /\ agentCall'.sdk = None
           /\ UNCHANGED <<connectedServices, initCall, summaryCall>>
           /\ UNCHANGED <<pmVars, execVars, wfVars, ctVars, mcpVars, svcVars>>

\* C15: the agent executes a tool only for a connected service: sendEmail and
\* getRecentEmails need gmail, createCalendarEvent and getUpcomingEvents need
\* googlecalendar, uploadToDrive and searchDriveFiles need googledrive;
\* otherwise the method throws '<Service> not connected. Please authenticate
\* first.', executes no tool and changes no state.
C15_OnlyConnectedServicesExecute ==
    /\ []ExecutesOnlyConnected
    /\ [][RefusedCallChangesNothing]_vars

\* A method was called while its service was not connected, and threw.
C15_Witness ==
    /\ agentCall.pc = "settled"
    /\ RequiredService(agentCall.method) \notin connectedServices
    /\ agentCall.outcome = Thrown(NotConnectedMessage(agentCall.method))

----------------------------------------------------------------------------
(***************************************************************************)
(* Properties of the process, checked under Spec.                          *)
(***************************************************************************)

\* C16: with COMPOSIO_API_KEY set and ANTHROPIC_API_KEY not set, main starts
\* up: it registers the custom tools and lists the available tools; it exits
\* with 1 only when a registration or the listing fails.
C16_AnthropicKeyOptional ==
    (/\ proc = "main"
     /\ env.composio
     /\ ~env.anthropic
     /\ pc # "start")
        => /\ pc \in {"registering", "listing", "exited"}
           /\ pc = "exited" => \/ toolsListed
                               \/ reg.outcome.kind = "throw"

\* /shutdown answers before anything else happens: the step that schedules
\* the exit sends the acknowledgement and leaves the process running.
AcknowledgedFirst ==
    shutdownTimers' > shutdownTimers
        => /\ lastResponse' = ShutdownResponse
           /\ pc' = "listening"
           /\ exitCode' = Running

\* A listening service ends with code 0 only, and an exit code, once set,
\* stays.
ExitCodeZeroAndKept ==
    /\ (pc = "listening" /\ pc' = "exited") => exitCode' = 0
    /\ exitCode # Running => exitCode' = exitCode

\* Between a /shutdown request and the exit the server is still serving.
ServingUntilExit ==
    (shutdownTimers > 0 /\ pc = "listening") => Serving

\* C17: after GET /shutdown the acknowledgement is sent first and the process
\* then eventually exits with code 0; until the exit /health and /status are
\* still served, and further /shutdown requests do not change the exit code.
C17_GracefulShutdown ==
    /\ [][AcknowledgedFirst]_vars
    /\ [][ExitCodeZeroAndKept]_vars
    /\ []ServingUntilExit
    /\ (shutdownTimers > 0) ~> (pc = "exited" /\ exitCode = 0)

\* /health was answered after two /shutdown requests and before the exit.
C17_Witness ==
    /\ shutdownTimers = MaxShutdownRequests
    /\ pc = "listening"
    /\ lastResponse.path = "/health"

----------------------------------------------------------------------------
(***************************************************************************)
(* Properties of the restarts by the process manager, checked under SpecPm.*)
(***************************************************************************)

ErroredOnlyAtLimit ==
    pmStatus = "errored" => (unstableRestarts >= max_restarts /\ pc = "exited")

ErroredIsFinal ==
    pmStatus = "errored" => (pmStatus' = "errored" /\ pc' = "exited")

----------------------------------------------------------------------------
(***************************************************************************)
(* Properties of executeTool, checked under SpecAgent.                     *)
(***************************************************************************)

\* C19: executeTool returns if and only if the SDK reports the execution as
\* successful, and then returns exactly the data of the result; for every
\* unsuccessful result, and when the SDK throws, it throws an Error whose
\* message is the reported error and returns no value.
C19_ReturnsIffSuccessful ==
    (agentCall.pc = "settled" /\ IsSome(agentCall.sdk))
        => LET sdk == Get(agentCall.sdk)
               out == agentCall.outcome
           IN  /\ out.kind = "return" <=> (sdk.kind = "result" /\ sdk.successful)
               /\ out.kind = "return" => (out.value = sdk.data /\ out.error = None)
               /\ out.kind # "return"
                     => /\ out.kind = "throw"
                        /\ out.value = None
                        /\ out.error = sdk.error

\* A method of the agent has returned the data of a successful execution.
C19_Witness ==
    /\ agentCall.pc = "settled"
    /\ IsSome(agentCall.sdk)
    /\ Get(agentCall.sdk).successful
    /\ agentCall.outcome.kind = "return"
    /\ agentCall.outcome.value = Get(agentCall.sdk).data

----------------------------------------------------------------------------
(***************************************************************************)
(* Properties of the order of registration, checked under Spec.            *)
(***************************************************************************)

\* The registered tools are, in order, the first calls of the fixed sequence
\* Gmail, Calendar, Drive, Docs, Sheets, Slides, Forms, Chat, Search, Tasks,
\* Comments; during startup the call in flight is the one after the last
\* registered tool.
RegisteredInOrder ==
    /\ Len(registry) <= Len(AllToolSlugs)
    /\ \A i \in 1..Len(registry) : registry[i].slug = AllToolSlugs[i]
    /\ (reg.next > 0 /\ reg.caller = "startup") => Len(registry) = reg.next - 1

\* A failing registration ends the run and registers nothing; the registry
\* changes only by the call in flight, and what is registered stays.
FailureStopsRegistration ==
    /\ (reg.next > 0 /\ reg'.outcome.kind = "throw")
          => (reg'.next = 0 /\ registry' = registry)
    /\ (reg.next = 0 \/ reg.outcome.kind = "throw") => registry' = registry
    /\ Len(registry') >= Len(registry)
    /\ \A i \in 1..Len(registry) : registry'[i].slug = registry[i].slug

\* C20: initializeCustomTools registers the tools strictly one after the
\* other in the order Gmail, Calendar, Drive, Docs, Sheets, Slides, Forms,
\* Chat, Search, Tasks, Comments: one registration is in flight at a time,
\* each starts when the previous one has completed, and after a failing
\* registration no later tool is registered while the earlier ones stay.
C20_SequentialRegistration ==
    /\ []RegisteredInOrder
    /\ [][FailureStopsRegistration]_vars

\* Startup has ended with a failed registration in the middle of the
\* sequence, the tools before it registered.
C20_Witness ==
    /\ pc = "exited"
    /\ reg.caller = "startup"
    /\ reg.outcome.kind = "throw"
    /\ Len(registry) > Len(GmailSlugs)
    /\ Len(registry) < Len(AllToolSlugs)

----------------------------------------------------------------------------
(***************************************************************************)
(* Properties of the workflows of the agent, checked under SpecAgent.      *)
(***************************************************************************)

\* C21: in scheduleMeetingWithInvites no sendEmail call is made before
\* createCalendarEvent has completed successfully, and when the creation of
\* the event fails (also because Google Calendar is not connected) no
\* invitation is sent at all.
C21_EventBeforeInvitations ==
    /\ Len(emailPromises) > 0 => IsSome(wfEvent)
    /\ wfPc = "event" => (emailPromises = <<>> /\ wfEvent = None)
    /\ (wfPc = "thrown" /\ wfEvent = None) => emailPromises = <<>>

\* The workflow has thrown for a meeting with attendees because the event
\* could not be created, and no sendEmail call was made.
C21_Witness ==
    /\ wfPc = "thrown"
    /\ wfEvent = None
    /\ Len(wfMeeting.attendees) > 0
    /\ emailPromises = <<>>

----------------------------------------------------------------------------
(***************************************************************************)
(* Properties of the methods of GoogleWorkspaceMCP, checked under Spec.    *)
(***************************************************************************)

\* C23: whenever initializeAuthentication has returned normally, the
\* waitForConnection of its connection request had completed successfully,
\* whether or not the request carries a redirectUrl.
C23_ReturnMeansConnected ==
    (auxCall.method = "initializeAuthentication" /\ auxCall.pc = 4)
        => auxCall.waited

\* A subscription is made only by a setupGmailTrigger call whose
\* triggers.create has just returned, for the trigger id it returned, and
\* such a call makes exactly one; no step removes a subscription.
SubscribesCreatedTrigger ==
    /\ subscriptions' # subscriptions
          => /\ auxCall.method = "setupGmailTrigger"
             /\ auxCall.pc = 1
             /\ auxCall'.pc = 4
             /\ subscriptions' = Append(subscriptions, Get(auxCall'.outcome.value))
    /\ (auxCall.method = "setupGmailTrigger" /\ auxCall.pc = 1 /\ auxCall'.pc = 4)
          => Len(subscriptions') = Len(subscriptions) + 1
    /\ (auxCall.pc = 1 /\ auxCall'.pc = 5)
          => /\ auxCall'.outcome.kind = "throw"
             /\ subscriptions' = subscriptions

C25_SuccessMeansDispatched ==
    (mcpCall.method = "sendEmail" /\ mcpCall.pc = 4)
        => \E k \in 1..Len(Get(mcpCall.msg).toolCalls) :
              Get(mcpCall.msg).toolCalls[k].slug = "GMAIL_SEND_EMAIL"

\* The native tools the methods of GoogleWorkspaceMCP request by slug.
NativeRequested ==
    Range(NativeToolSlugs) \cup {McpToolSlug(method) : method \in McpMethods}

\* C26: the slugs registered by one run of initializeCustomTools are pairwise
\* distinct (no call of the run registers a slug an earlier call of the run
\* used) and none is a native slug requested by getGoogleWorkspaceTools,
\* sendEmail, searchGmailMessages or createCalendarEvent; the four slugs of
\* the custom-tools module are pairwise distinct and distinct from all of
\* those.
C26_SlugsDistinct ==
    /\ reg.next > 0
          => AllToolSlugs[reg.next] \notin {AllToolSlugs[i] : i \in 1..(reg.next - 1)}
    /\ RegisteredSlugs \cap NativeRequested = {}
    /\ RegisteredSlugs \cap Range(CustomToolSlugs) = {}
    /\ Cardinality(Range(CustomToolSlugs)) = Len(CustomToolSlugs)
    /\ Range(CustomToolSlugs) \cap NativeRequested = {}

\* The last registration of the startup run is in flight, all others done.
C26_Witness ==
    /\ reg.caller = "startup"
    /\ reg.next = Len(AllToolSlugs)
    /\ Cardinality(RegisteredSlugs) = Len(AllToolSlugs) - 1

\* C27: a service started through start answers no request while it is
\* initializing: the server listens only once initialize has set isReady, so
\* every /health response says 'ready', every /status response says
\* initialized, and no response with status 'initializing' is produced.
C27_NoResponseWhileInitializing ==
    /\ listening => isReady
    /\ pc = "registering" => (~listening /\ lastResponse = NoResponse)
    /\ lastResponse.path = "/health" => lastResponse.status = "ready"
    /\ lastResponse.path = "/status" => lastResponse.initialized
    /\ lastResponse.status # "initializing"

\* The started service has answered /status with initialized = true.
C27_Witness ==
    /\ proc = "service"
    /\ listening
    /\ lastResponse.path = "/status"
    /\ lastResponse.initialized

----------------------------------------------------------------------------
(***************************************************************************)
(* Properties of connectedServices, checked under SpecAgent.               *)
(***************************************************************************)

\* connectedServices changes only when getAvailableTools answered an
\* initialize call with at least one tool, and then by adding the service
\* asked about; nothing is removed, and a failing initialize keeps what the
\* call added before.
GrowsByVerifiedService ==
    /\ connectedServices \subseteq connectedServices'
    /\ connectedServices' # connectedServices
          => /\ initCall.pc = "running"
             /\ Len(initCall'.seen) = Len(initCall.seen) + 1
             /\ initCall'.seen[Len(initCall'.seen)] > 0
             /\ connectedServices' =
                   connectedServices \cup {initCall.services[initCall.idx]}
    /\ (initCall.pc = "running" /\ Len(initCall'.seen) = Len(initCall.seen) + 1
            /\ initCall'.seen[Len(initCall'.seen)] = 0)
          => connectedServices' = connectedServices
    /\ initCall'.outcome.kind = "throw" => connectedServices' = connectedServices

\* C28: connectedServices only grows and only with verified services: a
\* service enters only when an initialize call saw at least one tool for it,
\* none is removed, a repeated initialize with the same answers changes
\* nothing, a failure at the k-th service keeps the first k-1, and
\* getStatus().ready is true exactly when the set is not empty.
C28_ConnectedOnlyGrows ==
    /\ [][GrowsByVerifiedService]_vars
    /\ [](getStatus(connectedServices).ready <=> connectedServices # {})

\* initialize failed at its third service after it had connected the first.
C28_Witness ==
    /\ initCall.pc = "settled"
    /\ initCall.outcome.kind = "throw"
    /\ initCall.idx = 3
    /\ initCall.services[1] \in connectedServices
    /\ getStatus(connectedServices).ready

----------------------------------------------------------------------------
(***************************************************************************)
(* Two executors in detail: WORKSPACE_WORKFLOW (part_001:225-263) and      *)
(* SHEETS_MODIFY_SHEET_VALUES (index.ts:1492-1504). Math.random() is a     *)
(* numerator over RandomScale, Date.now() is the clock in milliseconds.    *)
(***************************************************************************)
MaxActions == 2
RandomScale == 4000
DayMs == 24 * 60 * 60 * 1000

\* Math.random() answers k / RandomScale, 0 <= k < RandomScale.
RandomSamples == {0, 2001, RandomScale - 1}

TriggerTypes == {"schedule", "email"}
WorkflowActions ==
    {[app |-> "gmail", action |-> "send_email"],
     [app |-> "sheets", action |-> "append_row"]}
\* The fields the executor reads; trigger.conditions and the parameters of
\* an action are never read (part_001:226-252).
WorkflowInputs ==
    [workflowType : {"email_to_calendar"},
     trigger : [type : TriggerTypes],
     actions : SeqUpTo(WorkflowActions, MaxActions)]

DecimalDigit(d) ==
    CASE d = 0 -> "0" [] d = 1 -> "1" [] d = 2 -> "2" [] d = 3 -> "3"
      [] d = 4 -> "4" [] d = 5 -> "5" [] d = 6 -> "6" [] d = 7 -> "7"
      [] d = 8 -> "8" [] d = 9 -> "9"

\* new Date(ms).toISOString() for the instants of the model: fewer than nine
\* days and fewer than ten milliseconds after the epoch.
ToISOString(ms) ==
    "1970-01-0" \o DecimalDigit(1 + ms \div DayMs) \o "T00:00:00.00"
        \o DecimalDigit(ms % DayMs) \o "Z"

\* Math.floor(Math.random() * 2000) + 200
ExecutionTime(rnd) == ((rnd * 2000) \div RandomScale) + 200

RECURSIVE SumExecutionTime(_)
SumExecutionTime(results) ==
    IF results = <<>> THEN 0
    ELSE results[1].execution_time + SumExecutionTime(Tail(results))

\* actions.map((action, index) => ({...})): draws[i] is what Math.random()
\* answers for the i-th action.
ExecutionResults(actions, draws) ==
    [index \in 1..Len(actions) |->
        [step |-> index,
         app |-> actions[index].app,
         action |-> actions[index].action,
         status |-> "completed",
         execution_time |-> ExecutionTime(draws[index]),
         result |-> actions[index].app \o " " \o actions[index].action
                       \o " executed successfully"]]

WorkflowExecute_FixedTotal(input, now, draws) ==
    LET executionResults == ExecutionResults(input.actions, draws)
    IN  [data |-> Some(
            [workflow_id |-> "wf_" \o DecimalDigit(now),
             workflow_type |-> input.workflowType,
             execution_summary |->
                 [total_steps |-> Len(input.actions),
                  completed_steps |-> Len(input.actions),
                  failed_steps |-> 0,
                  total_execution_time |-> 200 * Len(input.actions)],
             step_results |-> executionResults,
             next_execution |-> IF input.trigger.type = "schedule"
                                THEN ToISOString(now + DayMs)
                                ELSE "on_demand"]),
         successful |-> Some(TRUE),
         error |-> None]

\* execute(input) of WORKSPACE_WORKFLOW; the constant logs are left out.
WorkflowExecute(input, now, draws) ==
    LET executionResults == ExecutionResults(input.actions, draws)
    IN  [data |-> Some(
            [workflow_id |-> "wf_" \o DecimalDigit(now),
             workflow_type |-> input.workflowType,
             execution_summary |->
                 [total_steps |-> Len(input.actions),
                  completed_steps |-> Len(input.actions),
                  failed_steps |-> 0,
                  total_execution_time |-> SumExecutionTime(executionResults)],
             step_results |-> executionResults,
             next_execution |-> IF input.trigger.type = "schedule"
                                THEN ToISOString(now + DayMs)
                                ELSE "on_demand"]),
         successful |-> Some(TRUE),
         error |-> None]

\* The executor of WORKSPACE_WORKFLOW is invoked.
WorkflowExecutes(input, draws) ==
    /\ pc = "tools"
    /\ tool = "WORKSPACE_WORKFLOW"
    /\ Cardinality(executions) < MaxExecutions
    /\ executions' = executions \cup
          {[input |-> input, ctx |-> "connection_1",
            envelope |-> Some(WorkflowExecute(input, clock, draws)),
            outcome |-> NoOutcome]}
    /\ UNCHANGED <<tool, clock, dispatches>>
    /\ UNCHANGED <<pmVars, agentVars, wfVars, ctVars, mcpVars, svcVars>>

MaxRows == 2
MaxColumns == 2

\* The array of r rows of c cells each.
Rectangular(r, c) == [i \in 1..r |-> [j \in 1..c |-> "x"]]
SheetValues == {Rectangular(r, c) : r \in 0..MaxRows, c \in 0..MaxColumns}

\* values and clear_values are optional in the schema (index.ts:1488-1490).
ModifyInputs ==
    [spreadsheet_id : {"sheet_1"},
     range_name : {"Sheet1!A1:B2"},
     values : {None} \cup {Some(v) : v \in SheetValues},
     clear_values : {None, Some(TRUE), Some(FALSE)}]

\* values?.length || 0
LengthOrZero(values) == IF IsSome(values) THEN Len(Get(values)) ELSE 0

\* values?.[0]?.length || 0
FirstRowLengthOrZero(values) ==
    IF IsSome(values) /\ Len(Get(values)) > 0 THEN Len(Get(values)[1]) ELSE 0

\* execute(input) of SHEETS_MODIFY_SHEET_VALUES; clear_values defaults to
\* false in the destructuring (index.ts:1493).
ModifySheetValuesExecute(input) ==
    LET clear_values == IF IsSome(input.clear_values)
                        THEN Get(input.clear_values) ELSE FALSE
    IN  [data |-> Some(
            [updated_cells |-> IF clear_values THEN 0
                               ELSE LengthOrZero(input.values),
             updated_rows |-> IF clear_values THEN 0
                              ELSE LengthOrZero(input.values),
             updated_columns |-> IF clear_values THEN 0
                                 ELSE FirstRowLengthOrZero(input.values),
             range |-> input.range_name,
             operation |-> IF clear_values THEN "clear" ELSE "update",
             spreadsheet_id |-> input.spreadsheet_id]),
         successful |-> None,
         error |-> None]

\* The executor of SHEETS_MODIFY_SHEET_VALUES is invoked.
ModifySheetValuesExecutes(input) ==
    /\ pc = "tools"
    /\ tool = "SHEETS_MODIFY_SHEET_VALUES"
    /\ Cardinality(executions) < MaxExecutions
    /\ executions' = executions \cup
          {[input |-> input, ctx |-> "connection_1",
            envelope |-> Some(ModifySheetValuesExecute(input)),
            outcome |-> NoOutcome]}
    /\ UNCHANGED <<tool, clock, dispatches>>
    /\ UNCHANGED <<pmVars, agentVars, wfVars, ctVars, mcpVars, svcVars>>

\* One of the two executors, run on any of its inputs as time passes.
InitResults ==
    /\ InitClient
    /\ InitNoManager
    /\ env = [composio |-> TRUE, anthropic |-> TRUE]
    /\ proc = "tools"
    /\ pc = "tools"
    /\ tool \in {"WORKSPACE_WORKFLOW", "SHEETS_MODIFY_SHEET_VALUES"}
    /\ clock = 0
    /\ executions = {}
    /\ dispatches = {}

NextResults ==
    \/ \E input \in WorkflowInputs :
          \E draws \in [1..Len(input.actions) -> RandomSamples] :
             WorkflowExecutes(input, draws)
    \/ \E input \in ModifyInputs : ModifySheetValuesExecutes(input)
    \/ ClockTick

SpecResults == InitResults /\ [][NextResults]_vars

----------------------------------------------------------------------------
(***************************************************************************)
(* Properties of the two executors, checked under SpecResults.             *)
(***************************************************************************)
\* The data of the result of one execution.
ResultData(e) == Get(Get(e.envelope).data)

\* The summary of one result agrees with its steps and with its input.
SummaryConsistent(input, data) ==
    LET n == Len(input.actions)
        steps == data.step_results
    IN  /\ data.execution_summary.total_steps = n
        /\ data.execution_summary.completed_steps = n
        /\ data.execution_summary.failed_steps = 0
        /\ Len(steps) = n
        /\ \A i \in 1..n :
              /\ steps[i].step = i
              /\ steps[i].app = input.actions[i].app
              /\ steps[i].action = input.actions[i].action
              /\ steps[i].execution_time \in 200..2199
        /\ data.execution_summary.total_execution_time
              = SumExecutionTime(steps)
        /\ (data.next_execution = "on_demand")
              <=> (input.trigger.type # "schedule")

\* C29: every result of WORKSPACE_WORKFLOW has total_steps = completed_steps
\* = number of input actions, failed_steps = 0, one step result per action in
\* input order numbered 1..n, every execution_time in 200..2199,
\* total_execution_time equal to the sum of the steps' execution_time, and
\* next_execution 'on_demand' exactly when trigger.type is not 'schedule'.
C29_SummaryMatchesSteps ==
    tool = "WORKSPACE_WORKFLOW"
        => \A e \in executions : SummaryConsistent(e.input, ResultData(e))

\* Two steps with the smallest and the largest execution time, under both
\* kinds of trigger.
C29_Witness ==
    /\ tool = "WORKSPACE_WORKFLOW"
    /\ \E e \in executions :
          /\ Len(e.input.actions) = 2
          /\ e.input.trigger.type = "schedule"
          /\ ResultData(e).step_results[1].execution_time = 200
          /\ ResultData(e).step_results[2].execution_time = 2199
          /\ ResultData(e).execution_summary.total_execution_time = 2399
    /\ \E e \in executions :
          /\ e.input.trigger.type = "email"
          /\ ResultData(e).next_execution = "on_demand"

\* The rows and columns of a rectangular array; an omitted array has none.
RowsOf(values) == IF IsSome(values) THEN Len(Get(values)) ELSE 0
ColumnsOf(values) ==
    IF RowsOf(values) = 0 THEN 0 ELSE Len(Get(values)[RowsOf(values)])

\* C30: for every rectangular values array of r rows and c columns
\* SHEETS_MODIFY_SHEET_VALUES reports, with clear_values false, operation
\* 'update', updated_rows = r, updated_columns = c and updated_cells = r * c;
\* with clear_values true, operation 'clear' and three counts of 0; an
\* omitted array counts as 0 rows and 0 columns.
C30_CountsMatchArray ==
    tool = "SHEETS_MODIFY_SHEET_VALUES"
        => \A e \in executions :
              LET data == ResultData(e)
                  r == RowsOf(e.input.values)
                  c == ColumnsOf(e.input.values)
              IN  IF e.input.clear_values = Some(TRUE)
                  THEN /\ data.operation = "clear"
                       /\ data.updated_rows = 0
                       /\ data.updated_columns = 0
                       /\ data.updated_cells = 0
                  ELSE /\ data.operation = "update"
                       /\ data.updated_rows = r
                       /\ data.updated_columns = c
                       /\ data.updated_cells = r * c

====
